---------------------------- MODULE Spec2Model ----------------------------
(***************************************************************************)
(* Model of the command line interface of the `anoma`, `anoma-node`,      *)
(* `anoma-client` and `anoma-wallet` executables (apps/src/lib/cli.rs):   *)
(* the argument descriptors, the argument structures (def / parse), the   *)
(* command tree (def / add_sub / parse) and the four dispatchers.         *)
(*                                                                         *)
(* One behaviour of the model is one process invocation: an entry point,  *)
(* a command line and an environment are chosen initially, then the       *)
(* dispatcher runs step by step until it returns or the process exits.    *)
(***************************************************************************)
EXTENDS Naturals, Integers, Sequences, FiniteSets, TLC

(***************************************************************************)
(* Bounds on the explored command lines.                                   *)
(***************************************************************************)
\* The departures of a command line from the plain invocation of a command
\* (its tokens and its required arguments, each with a well-formed text):
\* required arguments left out, further arguments or environment variables
\* supplied, texts that are malformed.
MaxChanges == 2

None == "None"
\* The process exited inside an argument conversion.
Exit == "Exit"

(***************************************************************************)
(* Argument descriptors (utils.rs: Arg, ArgOpt, ArgFlag, ArgDefault,       *)
(* ArgDefaultFromCtx).  card is the cardinality tag, ty the target type,   *)
(* dflt the value of the DefaultFn, conflicts the keys declared with       *)
(* conflicts_with / conflicts_with_all.                                    *)
(***************************************************************************)
arg(name, ty) ==
    [name |-> name, card |-> "req", ty |-> ty, dflt |-> None, conflicts |-> {}]

arg_opt(name, ty) ==
    [name |-> name, card |-> "opt", ty |-> ty, dflt |-> None, conflicts |-> {}]

flag(name) ==
    [name |-> name, card |-> "flag", ty |-> "bool", dflt |-> None, conflicts |-> {}]

arg_default(name, ty, dflt) ==
    [name |-> name, card |-> "default", ty |-> ty, dflt |-> dflt, conflicts |-> {}]

arg_default_from_ctx(name, ty, dflt) ==
    [name |-> name, card |-> "default_ctx", ty |-> ty, dflt |-> dflt, conflicts |-> {}]

\* Arg::opt
opt(d) == [d EXCEPT !.card = "opt"]

\* Arg::default
default(d, dflt) == [d EXCEPT !.card = "default", !.dflt = dflt]

\* clap::Arg::conflicts_with
conflicts_with(d, other) == [d EXCEPT !.conflicts = @ \cup {other}]

\* clap::Arg::conflicts_with_all
conflicts_with_all(d, others) == [d EXCEPT !.conflicts = @ \cup others]

(***************************************************************************)
(* The descriptor constants of `mod args`.                                 *)
(***************************************************************************)
ALIAS == arg("alias", "String")
ALIAS_OPT == opt(ALIAS)
ADDRESS == arg("address", "WalletAddress")
ALLOW_DUPLICATE_IP == flag("allow-duplicate-ip")
\* AMOUNT declared with a default instead of as a required argument.
AMOUNT_with_default == arg_default("amount", "Amount", "0")
AMOUNT == arg("amount", "Amount")
ARCHIVE_DIR == arg_opt("archive-dir", "PathBuf")
\* The default is computed from the environment, see BASE_DIR_default.
BASE_DIR == arg_default("base-dir", "PathBuf", "env")
BROADCAST_ONLY == flag("broadcast-only")
CHAIN_ID == arg("chain-id", "ChainId")
CHAIN_ID_OPT == opt(CHAIN_ID)
CHAIN_ID_PREFIX == arg("chain-prefix", "ChainIdPrefix")
CODE_PATH == arg("code-path", "PathBuf")
CODE_PATH_OPT == opt(CODE_PATH)
COMMISSION_RATE == arg("commission-rate", "Decimal")
CONSENSUS_TIMEOUT_COMMIT == arg_default("consensus-timeout-commit", "Timeout", "1s")
DATA_PATH_OPT == arg_opt("data-path", "PathBuf")
DATA_PATH == arg("data-path", "PathBuf")
DECRYPT == flag("decrypt")
DONT_ARCHIVE == flag("dont-archive")
DRY_RUN_TX == flag("dry-run")
EPOCH == arg_opt("epoch", "Epoch")
FEE_AMOUNT == arg_default("fee-amount", "Amount", "0")
FEE_TOKEN == arg_default_from_ctx("fee-token", "WalletAddress", "NAM")
FORCE == flag("force")
DONT_PREFETCH_WASM == flag("dont-prefetch-wasm")
GAS_LIMIT == arg_default("gas-limit", "Amount", "0")
GENESIS_PATH == arg("genesis-path", "PathBuf")
GENESIS_VALIDATOR == opt(arg("genesis-validator", "String"))
LEDGER_ADDRESS == arg("ledger-address", "TendermintAddress")
LEDGER_ADDRESS_DEFAULT == default(LEDGER_ADDRESS, "127.0.0.1:26657")
LOCALHOST == flag("localhost")
MAX_COMMISSION_RATE_CHANGE == arg("max-commission-rate-change", "Decimal")
MODE == arg_opt("mode", "String")
NET_ADDRESS == arg("net-address", "SocketAddr")
OWNER == arg_opt("owner", "WalletAddress")
PROPOSAL_OFFLINE == flag("offline")
PROTOCOL_KEY == arg_opt("protocol-key", "WalletPublicKey")
PRE_GENESIS_PATH == arg_opt("pre-genesis-path", "PathBuf")
PUBLIC_KEY == arg("public-key", "WalletPublicKey")
PROPOSAL_ID == arg("proposal-id", "u64")
PROPOSAL_ID_OPT == arg_opt("proposal-id", "u64")
PROPOSAL_VOTE == arg("vote", "ProposalVote")
RAW_ADDRESS == arg("address", "Address")
RAW_ADDRESS_OPT == opt(RAW_ADDRESS)
RAW_PUBLIC_KEY_OPT == arg_opt("public-key", "PublicKey")
SCHEME == arg_default("scheme", "SchemeType", "ed25519")
SIGNER == arg_opt("signer", "WalletAddress")
SIGNING_KEY == arg("signing-key", "WalletKeypair")
SIGNING_KEY_OPT == opt(SIGNING_KEY)
SOURCE == arg("source", "WalletAddress")
SOURCE_OPT == opt(SOURCE)
STORAGE_KEY == arg("storage-key", "Key")
SUB_PREFIX == arg_opt("sub-prefix", "String")
TARGET == arg("target", "WalletAddress")
TOKEN == arg("token", "WalletAddress")
TOKEN_OPT == opt(TOKEN)
TX_HASH == arg("tx-hash", "String")
UNSAFE_DONT_ENCRYPT == flag("unsafe-dont-encrypt")
UNSAFE_SHOW_SECRET == flag("unsafe-show-secret")
VALIDATOR == arg("validator", "WalletAddress")
VALIDATOR_OPT == opt(VALIDATOR)
VALIDATOR_ACCOUNT_KEY == arg_opt("account-key", "WalletPublicKey")
VALIDATOR_CONSENSUS_KEY == arg_opt("consensus-key", "WalletKeypair")
VALIDATOR_CODE_PATH == arg_opt("validator-code-path", "PathBuf")
VALUE == arg_opt("value", "String")
WASM_CHECKSUMS_PATH == arg("wasm-checksums-path", "PathBuf")
WASM_DIR == arg_opt("wasm-dir", "PathBuf")

(***************************************************************************)
(* Values.  A typed value is the pair of its type and the text it was      *)
(* converted from; optional values, flags and context-deferred values are  *)
(* tuples as well, so that every field of a parsed structure is a tuple.   *)
(***************************************************************************)
Typed(ty, raw) == <<ty, raw>>
NoneVal == <<"None">>
SomeVal(v) == <<"Some">> \o v
BoolVal(b) == IF b THEN <<"bool", "true">> ELSE <<"bool", "false">>
\* FromContext<T>: the raw text, resolved against the Context later on.
FromContext(ty, raw) == <<"FromContext", ty, raw>>
\* The conversion failed: the process terminates.
Failed == <<"Failed">>

\* Text standing for input that no structured type accepts.
BadText == "bad"

\* The values accepted by the arguments with a fixed vocabulary.
Vocabulary(ty) ==
    CASE ty = "ProposalVote" -> {"yay", "nay"}
      [] ty = "SchemeType" -> {"ed25519", "secp256k1"}
      [] ty = "TendermintMode" -> {"validator", "full", "seed"}
      [] OTHER -> {}

\* Types whose conversion from text cannot fail.
TextTypes == {"String", "PathBuf"}

\* <T as FromStr>::from_str
FromStr(ty, raw) ==
    IF ty \in TextTypes THEN Typed(ty, raw)
    ELSE IF Vocabulary(ty) # {}
         THEN IF raw \in Vocabulary(ty) THEN Typed(ty, raw) ELSE Failed
    ELSE IF raw = BadText THEN Failed ELSE Typed(ty, raw)

\* impl From<String> for TendermintMode
TendermintMode_from(v) ==
    IF v[2] \in Vocabulary("TendermintMode")
    THEN Typed("TendermintMode", v[2]) ELSE Failed

\* impl From<token::Amount> for GasLimit
GasLimit_from(v) == Typed("GasLimit", v[2])

(***************************************************************************)
(* The environment of the process: a function from the variables that are  *)
(* set to what each holds, a Unicode text or bytes that are not valid      *)
(* Unicode.                                                                *)
(***************************************************************************)
EnvVars == {"ANOMA_BASE_DIR", "ANOMA_WASM_DIR"}
\* The text a variable holds when it is set to a Unicode text.
EnvValue(var) == IF var = "ANOMA_BASE_DIR" THEN "env-base-dir" ELSE "env-wasm-dir"
\* What a variable holds when it is set to bytes that are not valid Unicode.
NotUnicodeBytes == "fo<FF>o"
\* The environment without variables.
NoEnv == [v \in {} |-> ""]
\* Every environment over EnvVars.
Environments ==
    UNION {{e \in [set -> {EnvValue(v) : v \in EnvVars} \cup {NotUnicodeBytes}] :
              \A v \in set : e[v] \in {EnvValue(v), NotUnicodeBytes}} :
           set \in SUBSET EnvVars}
\* std::env::VarError::NotUnicode
NotUnicode == "VarError::NotUnicode"
\* std::env::var: the text of the variable, None for Err(NotPresent),
\* NotUnicode for Err(NotUnicode).
env_var(vars_set, var) ==
    IF var \notin DOMAIN vars_set THEN None
    ELSE IF vars_set[var] = NotUnicodeBytes THEN NotUnicode
    ELSE vars_set[var]

\* config::DEFAULT_BASE_DIR
DEFAULT_BASE_DIR == ".anoma"

\* The DefaultFn of BASE_DIR: `Ok(dir) => dir.into()`,
\* `Err(_) => config::DEFAULT_BASE_DIR.into()`
BASE_DIR_default(vars_set) ==
    IF env_var(vars_set, "ANOMA_BASE_DIR") \notin {None, NotUnicode}
    THEN env_var(vars_set, "ANOMA_BASE_DIR") ELSE DEFAULT_BASE_DIR

\* The value of a descriptor's DefaultFn
DefaultFn(d, vars_set) == IF d.dflt = "env" THEN BASE_DIR_default(vars_set) ELSE d.dflt

(***************************************************************************)
(* Matched input (clap::ArgMatches).  A command line is a path of command  *)
(* tokens, the arguments given before the first token (gargs) and the      *)
(* arguments given after the last one (largs), each a function from the    *)
(* argument key to its raw text.  The matches at depth lvl of a command    *)
(* line hold the arguments given at that depth and the next token.         *)
(***************************************************************************)
NoArgs == [k \in {} |-> ""]

Matches(cmdline, vars_set, lvl) == [line |-> cmdline, env |-> vars_set, lvl |-> lvl]

matches_args(m) ==
    IF m.lvl = 0 THEN m.line.gargs
    ELSE IF m.lvl = Len(m.line.path) THEN m.line.largs
    ELSE NoArgs

\* ArgMatches::subcommand: the selected token, if any
subcommand_name(m) ==
    IF m.lvl < Len(m.line.path) THEN m.line.path[m.lvl + 1] ELSE None

NoMatches == [line |-> [path |-> <<>>, gargs |-> NoArgs, largs |-> NoArgs],
              env |-> NoEnv, lvl |-> -1]

\* ArgMatches::subcommand_matches
subcommand_matches(m, name) ==
    IF m.lvl >= 0 /\ subcommand_name(m) = name
    THEN Matches(m.line, m.env, m.lvl + 1) ELSE NoMatches

\* ArgMatches::is_present
is_present(m, key) == key \in DOMAIN matches_args(m)

\* ArgMatches::value_of
value_of(m, key) == IF is_present(m, key) THEN matches_args(m)[key] ELSE None

(***************************************************************************)
(* Parsing one descriptor out of the matches (utils.rs: Arg::parse,        *)
(* ArgOpt::parse, ArgFlag::parse, ArgDefault::parse,                       *)
(* ArgDefaultFromCtx::parse).                                              *)
(***************************************************************************)
ArgParse(d, m) ==
    LET raw == value_of(m, d.name) IN
    CASE d.card = "req" ->
           IF raw = None THEN Failed ELSE FromStr(d.ty, raw)
      [] d.card = "opt" ->
           IF raw = None THEN NoneVal
           ELSE IF FromStr(d.ty, raw) = Failed THEN Failed
           ELSE SomeVal(FromStr(d.ty, raw))
      [] d.card = "flag" -> BoolVal(is_present(m, d.name))
      [] d.card = "default" ->
           IF raw = None THEN Typed(d.ty, DefaultFn(d, m.env))
           ELSE FromStr(d.ty, raw)
      [] d.card = "default_ctx" ->
           FromContext(d.ty, IF raw = None THEN DefaultFn(d, m.env) ELSE raw)

\* One `let field = DESCRIPTOR.parse(matches)` line of an Args::parse.
read(field, d) == [field |-> field, d |-> d, into |-> None]
\* The same followed by a conversion (`.into()`, `.map(T::from)`).
read_into(field, d, into) == [field |-> field, d |-> d, into |-> into]

Convert(into, v) ==
    IF v = Failed \/ into = None THEN v
    ELSE IF into = "GasLimit" THEN GasLimit_from(v)
    ELSE IF v = NoneVal THEN NoneVal
    ELSE IF TendermintMode_from(Tail(v)) = Failed THEN Failed
    ELSE SomeVal(TendermintMode_from(Tail(v)))

ReadValue(e, m) == Convert(e.into, ArgParse(e.d, m))

\* The process terminated inside a structure's parse.
FailedArgs == [f \in {<<"", "Failed">>} |-> Failed]

\* The structure built by a sequence of reads: a function from the field
\* paths (<<"", field>> for a field of the command's own structure,
\* <<"tx", field>> or <<"query", field>> for a field of the structure nested
\* in it) to the parsed values, or FailedArgs when a conversion terminated
\* the process.
ParseReads(prefix, reads, m) ==
    IF \E i \in 1..Len(reads) : ReadValue(reads[i], m) = Failed
    THEN FailedArgs
    ELSE LET ix(f) == CHOOSE i \in 1..Len(reads) : reads[i].field = f
         IN [f \in {<<prefix, reads[i].field>> : i \in 1..Len(reads)} |->
                ReadValue(reads[ix(f[2])], m)]

\* A structure made of a nested structure and its own fields.
Struct(nested, own) ==
    IF nested = FailedArgs \/ own = FailedArgs THEN FailedArgs
    ELSE nested @@ own

\* A structure without fields.
UnitArgs == [f \in {} |-> Failed]

\* clap::App::new
App_new(name) ==
    [name |-> name, sreh |-> FALSE, args |-> <<>>, groups |-> {},
     subcommands |-> <<>>]

\* App::setting(AppSettings::SubcommandRequiredElseHelp)
SubcommandRequiredElseHelp(app) == [app EXCEPT !.sreh = TRUE]

\* App::subcommand, repeated
app_subcommands(app, subs) == [app EXCEPT !.subcommands = @ \o subs]

\* App::arg, repeated
app_args(app, ds) == [app EXCEPT !.args = @ \o ds]

\* App::group
app_group(app, g) == [app EXCEPT !.groups = @ \cup {g}]

\* clap::ArgGroup::new(name).args(keys).required(required)
ArgGroup(name, keys, required) ==
    [name |-> name, args |-> keys, required |-> required]

(***************************************************************************)
(* The argument structures of `mod args`: for each, the arguments its def  *)
(* adds to the command and the fields its parse reads.                     *)
(***************************************************************************)
\* Global::parse resolving an absent --wasm-dir from ANOMA_WASM_DIR.
args_Global_parse_wasm_dir_from_env(m) ==
    LET g == ParseReads("", <<read("chain_id", CHAIN_ID_OPT),
                              read("base_dir", BASE_DIR),
                              read("wasm_dir", WASM_DIR),
                              read_into("mode", MODE, "TendermintMode")>>, m)
    IN IF /\ g # FailedArgs
          /\ g[<<"", "wasm_dir">>] = NoneVal
          /\ env_var(m.env, "ANOMA_WASM_DIR") \notin {None, NotUnicode}
       THEN [g EXCEPT ![<<"", "wasm_dir">>] =
                SomeVal(Typed("PathBuf", env_var(m.env, "ANOMA_WASM_DIR")))]
       ELSE g

args_Global_parse(m) ==
    ParseReads("", <<read("chain_id", CHAIN_ID_OPT),
                     read("base_dir", BASE_DIR),
                     read("wasm_dir", WASM_DIR),
                     read_into("mode", MODE, "TendermintMode")>>, m)

args_Global_def(app) == app_args(app, <<CHAIN_ID_OPT, BASE_DIR, WASM_DIR, MODE>>)

\* Tx::def without the conflicts_with declarations.
args_Tx_def_without_conflicts(app) ==
    app_args(app, <<DRY_RUN_TX, FORCE, BROADCAST_ONLY, LEDGER_ADDRESS_DEFAULT,
                    ALIAS_OPT, FEE_AMOUNT, FEE_TOKEN, GAS_LIMIT,
                    SIGNING_KEY_OPT, SIGNER>>)

args_Tx_def(app) ==
    app_args(app, <<DRY_RUN_TX, FORCE, BROADCAST_ONLY, LEDGER_ADDRESS_DEFAULT,
                    ALIAS_OPT, FEE_AMOUNT, FEE_TOKEN, GAS_LIMIT,
                    conflicts_with(SIGNING_KEY_OPT, SIGNER.name),
                    conflicts_with(SIGNER, SIGNING_KEY_OPT.name)>>)

args_Tx_parse(m) ==
    ParseReads("tx", <<read("dry_run", DRY_RUN_TX),
                       read("force", FORCE),
                       read("broadcast_only", BROADCAST_ONLY),
                       read("ledger_address", LEDGER_ADDRESS_DEFAULT),
                       read("initialized_account_alias", ALIAS_OPT),
                       read("fee_amount", FEE_AMOUNT),
                       read("fee_token", FEE_TOKEN),
                       read_into("gas_limit", GAS_LIMIT, "GasLimit"),
                       read("signing_key", SIGNING_KEY_OPT),
                       read("signer", SIGNER)>>, m)

args_Query_def(app) == app_args(app, <<LEDGER_ADDRESS_DEFAULT>>)

args_Query_parse(m) ==
    ParseReads("query", <<read("ledger_address", LEDGER_ADDRESS_DEFAULT)>>, m)

args_QueryResult_parse(m) ==
    Struct(args_Query_parse(m), ParseReads("", <<read("tx_hash", TX_HASH)>>, m))

args_QueryResult_def(app) == app_args(args_Query_def(app), <<TX_HASH>>)

args_TxCustom_parse(m) ==
    Struct(args_Tx_parse(m),
           ParseReads("", <<read("code_path", CODE_PATH),
                            read("data_path", DATA_PATH_OPT)>>, m))

args_TxCustom_def(app) == app_args(args_Tx_def(app), <<CODE_PATH, DATA_PATH_OPT>>)

\* TxTransfer::parse reading the source from the target's descriptor.
args_TxTransfer_parse_source_from_target(m) ==
    Struct(args_Tx_parse(m),
           ParseReads("", <<read("source", TARGET), read("target", TARGET),
                            read("token", TOKEN), read("sub_prefix", SUB_PREFIX),
                            read("amount", AMOUNT)>>, m))

args_TxTransfer_parse(m) ==
    Struct(args_Tx_parse(m),
           ParseReads("", <<read("source", SOURCE),
                            read("target", TARGET),
                            read("token", TOKEN),
                            read("sub_prefix", SUB_PREFIX),
                            read("amount", AMOUNT)>>, m))

args_TxTransfer_def(app) ==
    app_args(args_Tx_def(app), <<SOURCE, TARGET, TOKEN, SUB_PREFIX, AMOUNT>>)

args_TxInitAccount_parse(m) ==
    Struct(args_Tx_parse(m),
           ParseReads("", <<read("source", SOURCE),
                            read("vp_code_path", CODE_PATH_OPT),
                            read("public_key", PUBLIC_KEY)>>, m))

args_TxInitAccount_def(app) ==
    app_args(args_Tx_def(app), <<SOURCE, CODE_PATH_OPT, PUBLIC_KEY>>)

args_TxInitValidator_parse(m) ==
    Struct(args_Tx_parse(m),
           ParseReads("", <<read("source", SOURCE),
                            read("scheme", SCHEME),
                            read("account_key", VALIDATOR_ACCOUNT_KEY),
                            read("consensus_key", VALIDATOR_CONSENSUS_KEY),
                            read("protocol_key", PROTOCOL_KEY),
                            read("commission_rate", COMMISSION_RATE),
                            read("max_commission_rate_change",
                                 MAX_COMMISSION_RATE_CHANGE),
                            read("validator_vp_code_path", VALIDATOR_CODE_PATH),
                            read("unsafe_dont_encrypt", UNSAFE_DONT_ENCRYPT)>>, m))

\* TxInitValidator::def declaring an `alias` of its own on top of the one the
\* Tx arguments declare.
args_TxInitValidator_def_alias_redeclared(app) ==
    app_args(args_Tx_def(app),
             <<SOURCE, SCHEME, VALIDATOR_ACCOUNT_KEY, VALIDATOR_CONSENSUS_KEY,
               PROTOCOL_KEY, COMMISSION_RATE, MAX_COMMISSION_RATE_CHANGE,
               VALIDATOR_CODE_PATH, UNSAFE_DONT_ENCRYPT, ALIAS>>)

args_TxInitValidator_def(app) ==
    app_args(args_Tx_def(app),
             <<SOURCE, SCHEME, VALIDATOR_ACCOUNT_KEY, VALIDATOR_CONSENSUS_KEY,
               PROTOCOL_KEY, COMMISSION_RATE, MAX_COMMISSION_RATE_CHANGE,
               VALIDATOR_CODE_PATH, UNSAFE_DONT_ENCRYPT>>)

args_TxUpdateVp_parse(m) ==
    Struct(args_Tx_parse(m),
           ParseReads("", <<read("vp_code_path", CODE_PATH),
                            read("addr", ADDRESS)>>, m))

args_TxUpdateVp_def(app) == app_args(args_Tx_def(app), <<CODE_PATH, ADDRESS>>)

args_Bond_parse(m) ==
    Struct(args_Tx_parse(m),
           ParseReads("", <<read("validator", VALIDATOR),
                            read("amount", AMOUNT),
                            read("source", SOURCE_OPT)>>, m))

args_Bond_def(app) == app_args(args_Tx_def(app), <<VALIDATOR, AMOUNT, SOURCE_OPT>>)

args_Unbond_parse(m) ==
    Struct(args_Tx_parse(m),
           ParseReads("", <<read("validator", VALIDATOR),
                            read("amount", AMOUNT),
                            read("source", SOURCE_OPT)>>, m))

args_Unbond_def(app) == app_args(args_Tx_def(app), <<VALIDATOR, AMOUNT, SOURCE_OPT>>)

args_InitProposal_parse(m) ==
    Struct(args_Tx_parse(m),
           ParseReads("", <<read("proposal_data", DATA_PATH),
                            read("offline", PROPOSAL_OFFLINE)>>, m))

args_InitProposal_def(app) ==
    app_args(args_Tx_def(app), <<DATA_PATH, PROPOSAL_OFFLINE>>)

args_VoteProposal_parse(m) ==
    Struct(args_Tx_parse(m),
           ParseReads("", <<read("proposal_id", PROPOSAL_ID_OPT),
                            read("vote", PROPOSAL_VOTE),
                            read("offline", PROPOSAL_OFFLINE),
                            read("proposal_data", DATA_PATH_OPT)>>, m))

args_VoteProposal_def(app) ==
    app_args(args_Tx_def(app),
             <<conflicts_with_all(PROPOSAL_ID_OPT,
                                  {PROPOSAL_OFFLINE.name, DATA_PATH_OPT.name}),
               PROPOSAL_VOTE,
               conflicts_with(PROPOSAL_OFFLINE, PROPOSAL_ID.name),
               conflicts_with(DATA_PATH_OPT, PROPOSAL_ID.name)>>)

args_QueryProposal_parse(m) ==
    Struct(args_Query_parse(m),
           ParseReads("", <<read("proposal_id", PROPOSAL_ID_OPT)>>, m))

args_QueryProposal_def(app) == app_args(args_Tx_def(app), <<PROPOSAL_ID_OPT>>)

args_QueryProposalResult_parse(m) ==
    Struct(args_Query_parse(m),
           ParseReads("", <<read("proposal_id", PROPOSAL_ID_OPT),
                            read("offline", PROPOSAL_OFFLINE),
                            read("proposal_folder", DATA_PATH_OPT)>>, m))

\* QueryProposalResult::def without the conflicts_with declarations.
args_QueryProposalResult_def_without_conflicts(app) ==
    app_args(args_Query_def(app),
             <<PROPOSAL_ID_OPT, PROPOSAL_OFFLINE, DATA_PATH_OPT>>)

args_QueryProposalResult_def(app) ==
    app_args(args_Query_def(app),
             <<PROPOSAL_ID_OPT,
               conflicts_with(PROPOSAL_OFFLINE, PROPOSAL_ID.name),
               conflicts_with(DATA_PATH_OPT, PROPOSAL_ID.name)>>)

args_QueryProtocolParameters_parse(m) == args_Query_parse(m)

args_QueryProtocolParameters_def(app) == args_Query_def(app)

args_Withdraw_parse(m) ==
    Struct(args_Tx_parse(m),
           ParseReads("", <<read("validator", VALIDATOR),
                            read("source", SOURCE_OPT)>>, m))

args_Withdraw_def(app) == app_args(args_Tx_def(app), <<VALIDATOR, SOURCE_OPT>>)

args_QueryBalance_parse(m) ==
    Struct(args_Query_parse(m),
           ParseReads("", <<read("owner", OWNER),
                            read("token", TOKEN_OPT),
                            read("sub_prefix", SUB_PREFIX)>>, m))

args_QueryBalance_def(app) ==
    app_args(args_Query_def(app), <<OWNER, TOKEN_OPT, SUB_PREFIX>>)

args_QueryBonds_parse(m) ==
    Struct(args_Query_parse(m),
           ParseReads("", <<read("owner", OWNER),
                            read("validator", VALIDATOR_OPT)>>, m))

args_QueryBonds_def(app) == app_args(args_Query_def(app), <<OWNER, VALIDATOR_OPT>>)

args_QueryVotingPower_parse(m) ==
    Struct(args_Query_parse(m),
           ParseReads("", <<read("validator", VALIDATOR_OPT),
                            read("epoch", EPOCH)>>, m))

args_QueryVotingPower_def(app) ==
    app_args(args_Query_def(app), <<VALIDATOR_OPT, EPOCH>>)

args_QueryCommissionRate_parse(m) ==
    Struct(args_Query_parse(m),
           ParseReads("", <<read("validator", VALIDATOR_OPT),
                            read("epoch", EPOCH)>>, m))

args_QueryCommissionRate_def(app) ==
    app_args(args_Query_def(app), <<VALIDATOR_OPT, EPOCH>>)

args_QuerySlashes_parse(m) ==
    Struct(args_Query_parse(m),
           ParseReads("", <<read("validator", VALIDATOR_OPT)>>, m))

args_QuerySlashes_def(app) == app_args(args_Query_def(app), <<VALIDATOR_OPT>>)

args_QueryRawBytes_parse(m) ==
    Struct(args_Query_parse(m),
           ParseReads("", <<read("storage_key", STORAGE_KEY)>>, m))

args_QueryRawBytes_def(app) == app_args(args_Query_def(app), <<STORAGE_KEY>>)

args_KeyAndAddressGen_parse(m) ==
    ParseReads("", <<read("scheme", SCHEME),
                     read("alias", ALIAS_OPT),
                     read("unsafe_dont_encrypt", UNSAFE_DONT_ENCRYPT)>>, m)

args_KeyAndAddressGen_def(app) ==
    app_args(app, <<SCHEME, ALIAS_OPT, UNSAFE_DONT_ENCRYPT>>)

args_KeyFind_parse(m) ==
    ParseReads("", <<read("public_key", RAW_PUBLIC_KEY_OPT),
                     read("alias", ALIAS_OPT),
                     read("value", VALUE),
                     read("unsafe_show_secret", UNSAFE_SHOW_SECRET)>>, m)

\* KeyFind::def without the conflict between --alias and --value.
args_KeyFind_def_alias_with_value(app) ==
    app_args(app, <<conflicts_with_all(RAW_PUBLIC_KEY_OPT,
                                        {ALIAS_OPT.name, VALUE.name}),
                    ALIAS_OPT, VALUE, UNSAFE_SHOW_SECRET>>)

args_KeyFind_def(app) ==
    app_args(app, <<conflicts_with_all(RAW_PUBLIC_KEY_OPT,
                                        {ALIAS_OPT.name, VALUE.name}),
                    conflicts_with(ALIAS_OPT, VALUE.name),
                    VALUE, UNSAFE_SHOW_SECRET>>)

args_KeyList_parse(m) ==
    ParseReads("", <<read("decrypt", DECRYPT),
                     read("unsafe_show_secret", UNSAFE_SHOW_SECRET)>>, m)

args_KeyList_def(app) == app_args(app, <<DECRYPT, UNSAFE_SHOW_SECRET>>)

args_KeyExport_parse(m) == ParseReads("", <<read("alias", ALIAS)>>, m)

args_KeyExport_def(app) == app_args(app, <<ALIAS>>)

args_AddressOrAliasFind_parse(m) ==
    ParseReads("", <<read("alias", ALIAS_OPT),
                     read("address", RAW_ADDRESS_OPT)>>, m)

\* AddressOrAliasFind::def without the `find_flags` group.
args_AddressOrAliasFind_def_without_group(app) ==
    app_args(app, <<ALIAS_OPT, RAW_ADDRESS_OPT>>)

args_AddressOrAliasFind_def(app) ==
    app_group(app_args(app, <<ALIAS_OPT, RAW_ADDRESS_OPT>>),
              ArgGroup("find_flags", {ALIAS_OPT.name, RAW_ADDRESS_OPT.name}, TRUE))

args_AddressAdd_parse(m) ==
    ParseReads("", <<read("alias", ALIAS), read("address", RAW_ADDRESS)>>, m)

args_AddressAdd_def(app) == app_args(app, <<ALIAS, RAW_ADDRESS>>)

args_JoinNetwork_parse(m) ==
    ParseReads("", <<read("chain_id", CHAIN_ID),
                     read("genesis_validator", GENESIS_VALIDATOR),
                     read("pre_genesis_path", PRE_GENESIS_PATH),
                     read("dont_prefetch_wasm", DONT_PREFETCH_WASM)>>, m)

args_JoinNetwork_def(app) ==
    app_args(app, <<CHAIN_ID, GENESIS_VALIDATOR, PRE_GENESIS_PATH,
                    DONT_PREFETCH_WASM>>)

args_FetchWasms_parse(m) == ParseReads("", <<read("chain_id", CHAIN_ID)>>, m)

args_FetchWasms_def(app) == app_args(app, <<CHAIN_ID>>)

args_InitNetwork_parse(m) ==
    ParseReads("", <<read("genesis_path", GENESIS_PATH),
                     read("wasm_checksums_path", WASM_CHECKSUMS_PATH),
                     read("chain_id_prefix", CHAIN_ID_PREFIX),
                     read("unsafe_dont_encrypt", UNSAFE_DONT_ENCRYPT),
                     read("consensus_timeout_commit", CONSENSUS_TIMEOUT_COMMIT),
                     read("localhost", LOCALHOST),
                     read("allow_duplicate_ip", ALLOW_DUPLICATE_IP),
                     read("dont_archive", DONT_ARCHIVE),
                     read("archive_dir", ARCHIVE_DIR)>>, m)

args_InitNetwork_def(app) ==
    app_args(app, <<GENESIS_PATH, WASM_CHECKSUMS_PATH, CHAIN_ID_PREFIX,
                    UNSAFE_DONT_ENCRYPT, CONSENSUS_TIMEOUT_COMMIT, LOCALHOST,
                    ALLOW_DUPLICATE_IP, DONT_ARCHIVE, ARCHIVE_DIR>>)

args_InitGenesisValidator_parse(m) ==
    ParseReads("", <<read("alias", ALIAS),
                     read("commission_rate", COMMISSION_RATE),
                     read("max_commission_rate_change",
                          MAX_COMMISSION_RATE_CHANGE),
                     read("net_address", NET_ADDRESS),
                     read("unsafe_dont_encrypt", UNSAFE_DONT_ENCRYPT),
                     read("key_scheme", SCHEME)>>, m)

args_InitGenesisValidator_def(app) ==
    app_args(app, <<ALIAS, NET_ADDRESS, COMMISSION_RATE,
                    MAX_COMMISSION_RATE_CHANGE, UNSAFE_DONT_ENCRYPT, SCHEME>>)

(***************************************************************************)
(* Command values.  A parse attempt yields no command (its token was not   *)
(* selected), a command (the chain of enum variants wrapping it, outermost *)
(* first, and its parsed arguments), or terminates the process.            *)
(***************************************************************************)
CmdNone == [tag |-> "None", variants |-> <<>>, args |-> UnitArgs]
CmdExit == [tag |-> "Exit", variants |-> <<>>, args |-> UnitArgs]

\* `.map(|matches| Ctor(args::X::parse(matches)))`
SomeCmd(ctor, a) ==
    IF a = FailedArgs THEN CmdExit
    ELSE [tag |-> "Some", variants |-> <<ctor>>, args |-> a]

\* Option::map(Self::Variant)
map(r, variant) ==
    IF r.tag = "Some" THEN [r EXCEPT !.variants = <<variant>> \o @] ELSE r

\* Option::or over attempts that were all evaluated beforehand: the first
\* attempt that yielded a command, unless evaluating one of them terminated
\* the process.
or(attempts) ==
    IF \E i \in 1..Len(attempts) : attempts[i].tag = "Exit" THEN CmdExit
    ELSE IF \E i \in 1..Len(attempts) : attempts[i].tag = "Some"
    THEN attempts[CHOOSE i \in 1..Len(attempts) :
                    /\ attempts[i].tag = "Some"
                    /\ \A j \in 1..(i - 1) : attempts[j].tag # "Some"]
    ELSE CmdNone

(***************************************************************************)
(* The commands of `mod cmds`: for each SubCmd its token CMD, the App its  *)
(* def builds and its parse.                                               *)
(***************************************************************************)
cmds_KeyGen_CMD == "gen"

cmds_KeyGen_parse(m) ==
    LET sm == subcommand_matches(m, cmds_KeyGen_CMD)
    IN IF sm = NoMatches THEN CmdNone
       ELSE SomeCmd("cmds::KeyGen", args_KeyAndAddressGen_parse(sm))

cmds_KeyGen_def == args_KeyAndAddressGen_def(App_new(cmds_KeyGen_CMD))

cmds_KeyFind_CMD == "find"

cmds_KeyFind_parse(m) ==
    LET sm == subcommand_matches(m, cmds_KeyFind_CMD)
    IN IF sm = NoMatches THEN CmdNone
       ELSE SomeCmd("cmds::KeyFind", args_KeyFind_parse(sm))

cmds_KeyFind_def == args_KeyFind_def(App_new(cmds_KeyFind_CMD))

cmds_KeyList_CMD == "list"

cmds_KeyList_parse(m) ==
    LET sm == subcommand_matches(m, cmds_KeyList_CMD)
    IN IF sm = NoMatches THEN CmdNone
       ELSE SomeCmd("cmds::KeyList", args_KeyList_parse(sm))

cmds_KeyList_def == args_KeyList_def(App_new(cmds_KeyList_CMD))

cmds_Export_CMD == "export"

cmds_Export_parse(m) ==
    LET sm == subcommand_matches(m, cmds_Export_CMD)
    IN IF sm = NoMatches THEN CmdNone
       ELSE SomeCmd("cmds::Export", args_KeyExport_parse(sm))

cmds_Export_def == args_KeyExport_def(App_new(cmds_Export_CMD))

cmds_AddressGen_CMD == "gen"

cmds_AddressGen_parse(m) ==
    LET sm == subcommand_matches(m, cmds_AddressGen_CMD)
    IN IF sm = NoMatches THEN CmdNone
       ELSE SomeCmd("cmds::AddressGen", args_KeyAndAddressGen_parse(sm))

cmds_AddressGen_def == args_KeyAndAddressGen_def(App_new(cmds_AddressGen_CMD))

cmds_AddressOrAliasFind_CMD == "find"

cmds_AddressOrAliasFind_parse(m) ==
    LET sm == subcommand_matches(m, cmds_AddressOrAliasFind_CMD)
    IN IF sm = NoMatches THEN CmdNone
       ELSE SomeCmd("cmds::AddressOrAliasFind", args_AddressOrAliasFind_parse(sm))

cmds_AddressOrAliasFind_def == args_AddressOrAliasFind_def(App_new(cmds_AddressOrAliasFind_CMD))

cmds_AddressList_CMD == "list"

cmds_AddressList_parse(m) ==
    LET sm == subcommand_matches(m, cmds_AddressList_CMD)
    IN IF sm = NoMatches THEN CmdNone ELSE SomeCmd("cmds::AddressList", UnitArgs)

cmds_AddressList_def == App_new(cmds_AddressList_CMD)

cmds_AddressAdd_CMD == "add"

cmds_AddressAdd_parse(m) ==
    LET sm == subcommand_matches(m, cmds_AddressAdd_CMD)
    IN IF sm = NoMatches THEN CmdNone
       ELSE SomeCmd("cmds::AddressAdd", args_AddressAdd_parse(sm))

cmds_AddressAdd_def == args_AddressAdd_def(App_new(cmds_AddressAdd_CMD))

cmds_LedgerRun_CMD == "run"

cmds_LedgerRun_parse(m) ==
    LET sm == subcommand_matches(m, cmds_LedgerRun_CMD)
    IN IF sm = NoMatches THEN CmdNone ELSE SomeCmd("cmds::LedgerRun", UnitArgs)

cmds_LedgerRun_def == App_new(cmds_LedgerRun_CMD)

cmds_LedgerReset_CMD == "reset"

cmds_LedgerReset_parse(m) ==
    LET sm == subcommand_matches(m, cmds_LedgerReset_CMD)
    IN IF sm = NoMatches THEN CmdNone ELSE SomeCmd("cmds::LedgerReset", UnitArgs)

cmds_LedgerReset_def == App_new(cmds_LedgerReset_CMD)

cmds_ConfigGen_CMD == "gen"

cmds_ConfigGen_parse(m) ==
    LET sm == subcommand_matches(m, cmds_ConfigGen_CMD)
    IN IF sm = NoMatches THEN CmdNone ELSE SomeCmd("cmds::ConfigGen", UnitArgs)

cmds_ConfigGen_def == App_new(cmds_ConfigGen_CMD)

cmds_QueryResult_CMD == "tx-result"

cmds_QueryResult_parse(m) ==
    LET sm == subcommand_matches(m, cmds_QueryResult_CMD)
    IN IF sm = NoMatches THEN CmdNone
       ELSE SomeCmd("cmds::QueryResult", args_QueryResult_parse(sm))

cmds_QueryResult_def == args_QueryResult_def(App_new(cmds_QueryResult_CMD))

cmds_QueryProposal_CMD == "query-proposal"

cmds_QueryProposal_parse(m) ==
    LET sm == subcommand_matches(m, cmds_QueryProposal_CMD)
    IN IF sm = NoMatches THEN CmdNone
       ELSE SomeCmd("cmds::QueryProposal", args_QueryProposal_parse(sm))

cmds_QueryProposal_def == args_QueryProposal_def(App_new(cmds_QueryProposal_CMD))

cmds_QueryProposalResult_CMD == "query-proposal-result"

cmds_QueryProposalResult_parse(m) ==
    LET sm == subcommand_matches(m, cmds_QueryProposalResult_CMD)
    IN IF sm = NoMatches THEN CmdNone
       ELSE SomeCmd("cmds::QueryProposalResult", args_QueryProposalResult_parse(sm))

cmds_QueryProposalResult_def == args_QueryProposalResult_def(App_new(cmds_QueryProposalResult_CMD))

cmds_QueryProtocolParameters_CMD == "query-protocol-parameters"

cmds_QueryProtocolParameters_parse(m) ==
    LET sm == subcommand_matches(m, cmds_QueryProtocolParameters_CMD)
    IN IF sm = NoMatches THEN CmdNone
       ELSE SomeCmd("cmds::QueryProtocolParameters", args_QueryProtocolParameters_parse(sm))

cmds_QueryProtocolParameters_def == args_QueryProtocolParameters_def(App_new(cmds_QueryProtocolParameters_CMD))

cmds_TxCustom_CMD == "tx"

\* TxCustom::parse running the argument parse on whatever matches it is
\* given before looking at the token.
cmds_TxCustom_parse_eager(m) ==
    LET sm == subcommand_matches(m, cmds_TxCustom_CMD)
        a == args_TxCustom_parse(IF sm = NoMatches THEN m ELSE sm)
    IN IF a = FailedArgs THEN CmdExit
       ELSE IF sm = NoMatches THEN CmdNone
       ELSE SomeCmd("cmds::TxCustom", a)

cmds_TxCustom_parse(m) ==
    LET sm == subcommand_matches(m, cmds_TxCustom_CMD)
    IN IF sm = NoMatches THEN CmdNone
       ELSE SomeCmd("cmds::TxCustom", args_TxCustom_parse(sm))

cmds_TxCustom_def == args_TxCustom_def(App_new(cmds_TxCustom_CMD))

cmds_TxTransfer_CMD == "transfer"

cmds_TxTransfer_parse(m) ==
    LET sm == subcommand_matches(m, cmds_TxTransfer_CMD)
    IN IF sm = NoMatches THEN CmdNone
       ELSE SomeCmd("cmds::TxTransfer", args_TxTransfer_parse(sm))

cmds_TxTransfer_def == args_TxTransfer_def(App_new(cmds_TxTransfer_CMD))

cmds_TxUpdateVp_CMD == "update"

cmds_TxUpdateVp_parse(m) ==
    LET sm == subcommand_matches(m, cmds_TxUpdateVp_CMD)
    IN IF sm = NoMatches THEN CmdNone
       ELSE SomeCmd("cmds::TxUpdateVp", args_TxUpdateVp_parse(sm))

cmds_TxUpdateVp_def == args_TxUpdateVp_def(App_new(cmds_TxUpdateVp_CMD))

cmds_TxInitAccount_CMD == "init-account"

cmds_TxInitAccount_parse(m) ==
    LET sm == subcommand_matches(m, cmds_TxInitAccount_CMD)
    IN IF sm = NoMatches THEN CmdNone
       ELSE SomeCmd("cmds::TxInitAccount", args_TxInitAccount_parse(sm))

cmds_TxInitAccount_def == args_TxInitAccount_def(App_new(cmds_TxInitAccount_CMD))

cmds_TxInitValidator_CMD == "init-validator"

cmds_TxInitValidator_parse(m) ==
    LET sm == subcommand_matches(m, cmds_TxInitValidator_CMD)
    IN IF sm = NoMatches THEN CmdNone
       ELSE SomeCmd("cmds::TxInitValidator", args_TxInitValidator_parse(sm))

cmds_TxInitValidator_def == args_TxInitValidator_def(App_new(cmds_TxInitValidator_CMD))

cmds_Bond_CMD == "bond"

cmds_Bond_parse(m) ==
    LET sm == subcommand_matches(m, cmds_Bond_CMD)
    IN IF sm = NoMatches THEN CmdNone
       ELSE SomeCmd("cmds::Bond", args_Bond_parse(sm))

cmds_Bond_def == args_Bond_def(App_new(cmds_Bond_CMD))

cmds_Unbond_CMD == "unbond"

cmds_Unbond_parse(m) ==
    LET sm == subcommand_matches(m, cmds_Unbond_CMD)
    IN IF sm = NoMatches THEN CmdNone
       ELSE SomeCmd("cmds::Unbond", args_Unbond_parse(sm))

cmds_Unbond_def == args_Unbond_def(App_new(cmds_Unbond_CMD))

cmds_Withdraw_CMD == "withdraw"

cmds_Withdraw_parse(m) ==
    LET sm == subcommand_matches(m, cmds_Withdraw_CMD)
    IN IF sm = NoMatches THEN CmdNone
       ELSE SomeCmd("cmds::Withdraw", args_Withdraw_parse(sm))

cmds_Withdraw_def == args_Withdraw_def(App_new(cmds_Withdraw_CMD))

cmds_QueryEpoch_CMD == "epoch"

cmds_QueryEpoch_parse(m) ==
    LET sm == subcommand_matches(m, cmds_QueryEpoch_CMD)
    IN IF sm = NoMatches THEN CmdNone
       ELSE SomeCmd("cmds::QueryEpoch", args_Query_parse(sm))

cmds_QueryEpoch_def == args_Query_def(App_new(cmds_QueryEpoch_CMD))

cmds_QueryBlock_CMD == "block"

cmds_QueryBlock_parse(m) ==
    LET sm == subcommand_matches(m, cmds_QueryBlock_CMD)
    IN IF sm = NoMatches THEN CmdNone
       ELSE SomeCmd("cmds::QueryBlock", args_Query_parse(sm))

cmds_QueryBlock_def == args_Query_def(App_new(cmds_QueryBlock_CMD))

cmds_QueryBalance_CMD == "balance"

cmds_QueryBalance_parse(m) ==
    LET sm == subcommand_matches(m, cmds_QueryBalance_CMD)
    IN IF sm = NoMatches THEN CmdNone
       ELSE SomeCmd("cmds::QueryBalance", args_QueryBalance_parse(sm))

cmds_QueryBalance_def == args_QueryBalance_def(App_new(cmds_QueryBalance_CMD))

cmds_QueryBonds_CMD == "bonds"

cmds_QueryBonds_parse(m) ==
    LET sm == subcommand_matches(m, cmds_QueryBonds_CMD)
    IN IF sm = NoMatches THEN CmdNone
       ELSE SomeCmd("cmds::QueryBonds", args_QueryBonds_parse(sm))

cmds_QueryBonds_def == args_QueryBonds_def(App_new(cmds_QueryBonds_CMD))

cmds_QueryVotingPower_CMD == "voting-power"

cmds_QueryVotingPower_parse(m) ==
    LET sm == subcommand_matches(m, cmds_QueryVotingPower_CMD)
    IN IF sm = NoMatches THEN CmdNone
       ELSE SomeCmd("cmds::QueryVotingPower", args_QueryVotingPower_parse(sm))

cmds_QueryVotingPower_def == args_QueryVotingPower_def(App_new(cmds_QueryVotingPower_CMD))

cmds_QueryCommissionRate_CMD == "commission-rate"

cmds_QueryCommissionRate_parse(m) ==
    LET sm == subcommand_matches(m, cmds_QueryCommissionRate_CMD)
    IN IF sm = NoMatches THEN CmdNone
       ELSE SomeCmd("cmds::QueryCommissionRate", args_QueryCommissionRate_parse(sm))

cmds_QueryCommissionRate_def == args_QueryCommissionRate_def(App_new(cmds_QueryCommissionRate_CMD))

cmds_QuerySlashes_CMD == "slashes"

cmds_QuerySlashes_parse(m) ==
    LET sm == subcommand_matches(m, cmds_QuerySlashes_CMD)
    IN IF sm = NoMatches THEN CmdNone
       ELSE SomeCmd("cmds::QuerySlashes", args_QuerySlashes_parse(sm))

cmds_QuerySlashes_def == args_QuerySlashes_def(App_new(cmds_QuerySlashes_CMD))

cmds_QueryRawBytes_CMD == "query-bytes"

cmds_QueryRawBytes_parse(m) ==
    LET sm == subcommand_matches(m, cmds_QueryRawBytes_CMD)
    IN IF sm = NoMatches THEN CmdNone
       ELSE SomeCmd("cmds::QueryRawBytes", args_QueryRawBytes_parse(sm))

cmds_QueryRawBytes_def == args_QueryRawBytes_def(App_new(cmds_QueryRawBytes_CMD))

cmds_TxInitProposal_CMD == "init-proposal"

cmds_TxInitProposal_parse(m) ==
    LET sm == subcommand_matches(m, cmds_TxInitProposal_CMD)
    IN IF sm = NoMatches THEN CmdNone
       ELSE SomeCmd("cmds::TxInitProposal", args_InitProposal_parse(sm))

cmds_TxInitProposal_def == args_InitProposal_def(App_new(cmds_TxInitProposal_CMD))

cmds_TxVoteProposal_CMD == "vote-proposal"

cmds_TxVoteProposal_parse(m) ==
    LET sm == subcommand_matches(m, cmds_TxVoteProposal_CMD)
    IN IF sm = NoMatches THEN CmdNone
       ELSE SomeCmd("cmds::TxVoteProposal", args_VoteProposal_parse(sm))

cmds_TxVoteProposal_def == args_VoteProposal_def(App_new(cmds_TxVoteProposal_CMD))

cmds_JoinNetwork_CMD == "join-network"

cmds_JoinNetwork_parse(m) ==
    LET sm == subcommand_matches(m, cmds_JoinNetwork_CMD)
    IN IF sm = NoMatches THEN CmdNone
       ELSE SomeCmd("cmds::JoinNetwork", args_JoinNetwork_parse(sm))

cmds_JoinNetwork_def == args_JoinNetwork_def(App_new(cmds_JoinNetwork_CMD))

cmds_FetchWasms_CMD == "fetch-wasms"

cmds_FetchWasms_parse(m) ==
    LET sm == subcommand_matches(m, cmds_FetchWasms_CMD)
    IN IF sm = NoMatches THEN CmdNone
       ELSE SomeCmd("cmds::FetchWasms", args_FetchWasms_parse(sm))

cmds_FetchWasms_def == args_FetchWasms_def(App_new(cmds_FetchWasms_CMD))

cmds_InitNetwork_CMD == "init-network"

cmds_InitNetwork_parse(m) ==
    LET sm == subcommand_matches(m, cmds_InitNetwork_CMD)
    IN IF sm = NoMatches THEN CmdNone
       ELSE SomeCmd("cmds::InitNetwork", args_InitNetwork_parse(sm))

cmds_InitNetwork_def == args_InitNetwork_def(App_new(cmds_InitNetwork_CMD))

cmds_InitGenesisValidator_CMD == "init-genesis-validator"

cmds_InitGenesisValidator_parse(m) ==
    LET sm == subcommand_matches(m, cmds_InitGenesisValidator_CMD)
    IN IF sm = NoMatches THEN CmdNone
       ELSE SomeCmd("cmds::InitGenesisValidator", args_InitGenesisValidator_parse(sm))

cmds_InitGenesisValidator_def == args_InitGenesisValidator_def(App_new(cmds_InitGenesisValidator_CMD))

cmds_WalletKey_CMD == "key"

\* The alternatives that WalletKey::parse chains with Option::or, in order.
cmds_WalletKey_attempts(sm) ==
    <<map(cmds_KeyGen_parse(sm), "WalletKey::Gen"),
      map(cmds_KeyFind_parse(sm), "WalletKey::Find"),
      map(cmds_KeyList_parse(sm), "WalletKey::List"),
      map(cmds_Export_parse(sm), "WalletKey::Export")>>

cmds_WalletKey_parse(m) ==
    LET sm == subcommand_matches(m, cmds_WalletKey_CMD)
    IN IF sm = NoMatches THEN CmdNone
       ELSE or(cmds_WalletKey_attempts(sm))

cmds_WalletKey_def ==
    app_subcommands(SubcommandRequiredElseHelp(App_new(cmds_WalletKey_CMD)),
                    <<cmds_KeyGen_def, cmds_KeyFind_def, cmds_KeyList_def, cmds_Export_def>>)

cmds_WalletAddress_CMD == "address"

\* The alternatives that WalletAddress::parse chains with Option::or, in order.
cmds_WalletAddress_attempts(sm) ==
    <<map(cmds_AddressGen_parse(sm), "WalletAddress::Gen"),
      map(cmds_AddressOrAliasFind_parse(sm), "WalletAddress::Find"),
      map(cmds_AddressList_parse(sm), "WalletAddress::List"),
      map(cmds_AddressAdd_parse(sm), "WalletAddress::Add")>>

cmds_WalletAddress_parse(m) ==
    LET sm == subcommand_matches(m, cmds_WalletAddress_CMD)
    IN IF sm = NoMatches THEN CmdNone
       ELSE or(cmds_WalletAddress_attempts(sm))

cmds_WalletAddress_def ==
    app_subcommands(SubcommandRequiredElseHelp(App_new(cmds_WalletAddress_CMD)),
                    <<cmds_AddressGen_def, cmds_AddressOrAliasFind_def, cmds_AddressList_def, cmds_AddressAdd_def>>)

cmds_Ledger_CMD == "ledger"

\* Ledger::parse without the default of the `run` command.
cmds_Ledger_parse_without_default(m) ==
    LET sm == subcommand_matches(m, cmds_Ledger_CMD)
    IN IF sm = NoMatches THEN CmdNone
       ELSE or(<<map(cmds_LedgerRun_parse(sm), "Ledger::Run"),
                    map(cmds_LedgerReset_parse(sm), "Ledger::Reset")>>)

\* The alternatives of Ledger::parse: its children and, last, the default.
cmds_Ledger_attempts(sm) ==
    <<map(cmds_LedgerRun_parse(sm), "Ledger::Run"),
      map(cmds_LedgerReset_parse(sm), "Ledger::Reset"),
      map(SomeCmd("cmds::LedgerRun", UnitArgs), "Ledger::Run")>>

cmds_Ledger_parse(m) ==
    LET sm == subcommand_matches(m, cmds_Ledger_CMD)
    IN IF sm = NoMatches THEN CmdNone
       ELSE or(cmds_Ledger_attempts(sm))

cmds_Ledger_def ==
    app_subcommands(App_new(cmds_Ledger_CMD),
                    <<cmds_LedgerRun_def, cmds_LedgerReset_def>>)

cmds_Config_CMD == "config"

cmds_Config_parse(m) ==
    LET sm == subcommand_matches(m, cmds_Config_CMD)
    IN IF sm = NoMatches THEN CmdNone
       ELSE or(<<map(cmds_ConfigGen_parse(sm), "Config::Gen")>>)

cmds_Config_def ==
    app_subcommands(SubcommandRequiredElseHelp(App_new(cmds_Config_CMD)),
                    <<cmds_ConfigGen_def>>)

cmds_Utils_CMD == "utils"

\* The alternatives that Utils::parse chains with Option::or, in order.
cmds_Utils_attempts(sm) ==
    <<map(cmds_JoinNetwork_parse(sm), "Utils::JoinNetwork"),
      map(cmds_FetchWasms_parse(sm), "Utils::FetchWasms"),
      map(cmds_InitNetwork_parse(sm), "Utils::InitNetwork"),
      map(cmds_InitGenesisValidator_parse(sm), "Utils::InitGenesisValidator")>>

cmds_Utils_parse(m) ==
    LET sm == subcommand_matches(m, cmds_Utils_CMD)
    IN IF sm = NoMatches THEN CmdNone
       ELSE or(cmds_Utils_attempts(sm))

\* Utils::def without the `fetch-wasms` command, which Utils::parse still
\* attempts.
cmds_Utils_def_without_fetch_wasms ==
    app_subcommands(SubcommandRequiredElseHelp(App_new(cmds_Utils_CMD)),
                    <<cmds_JoinNetwork_def, cmds_InitNetwork_def, cmds_InitGenesisValidator_def>>)

cmds_Utils_def ==
    app_subcommands(SubcommandRequiredElseHelp(App_new(cmds_Utils_CMD)),
                    <<cmds_JoinNetwork_def, cmds_FetchWasms_def, cmds_InitNetwork_def, cmds_InitGenesisValidator_def>>)

\* Main Anoma sub-commands
NODE_CMD == "node"
CLIENT_CMD == "client"
WALLET_CMD == "wallet"

\* impl Cmd for AnomaNode
cmds_AnomaNode_add_sub(app) ==
    app_subcommands(app, <<cmds_Ledger_def, cmds_Config_def>>)

\* The alternatives of AnomaNode::parse with one more alternative for the
\* `ledger` token, wrapped as a Config.
cmds_AnomaNode_attempts_overlapping(m) ==
    <<map(cmds_Ledger_parse(m), "AnomaNode::Ledger"),
      map(cmds_Config_parse(m), "AnomaNode::Config"),
      map(cmds_Ledger_parse(m), "AnomaNode::Config")>>

\* The alternatives that AnomaNode::parse chains with Option::or, in order.
cmds_AnomaNode_attempts(m) ==
    <<map(cmds_Ledger_parse(m), "AnomaNode::Ledger"),
      map(cmds_Config_parse(m), "AnomaNode::Config")>>

cmds_AnomaNode_parse(m) ==
    or(cmds_AnomaNode_attempts(m))

\* impl SubCmd for AnomaNode
cmds_AnomaNode_SubCmd_parse(m) ==
    LET sm == subcommand_matches(m, NODE_CMD)
    IN IF sm = NoMatches THEN CmdNone ELSE cmds_AnomaNode_parse(sm)

cmds_AnomaNode_def ==
    cmds_AnomaNode_add_sub(SubcommandRequiredElseHelp(App_new(NODE_CMD)))

\* impl Cmd for AnomaClient
cmds_AnomaClient_add_sub(app) ==
    app_subcommands(app,
        <<cmds_TxCustom_def, cmds_TxTransfer_def, cmds_TxUpdateVp_def,
          cmds_TxInitAccount_def, cmds_TxInitValidator_def, cmds_TxInitProposal_def,
          cmds_TxVoteProposal_def, cmds_Bond_def, cmds_Unbond_def,
          cmds_Withdraw_def, cmds_QueryEpoch_def, cmds_QueryBlock_def,
          cmds_QueryBalance_def, cmds_QueryBonds_def, cmds_QueryVotingPower_def,
          cmds_QuerySlashes_def, cmds_QueryResult_def, cmds_QueryRawBytes_def,
          cmds_QueryProposal_def, cmds_QueryProposalResult_def, cmds_QueryProtocolParameters_def,
          cmds_Utils_def>>)

\* AnomaClient::parse_with_ctx
cmds_AnomaClient_parse_with_ctx(sub, sub_to_self) ==
    map(map(sub, sub_to_self), "AnomaClient::WithContext")

\* The alternatives that AnomaClient::parse chains with Option::or, in order.
cmds_AnomaClient_attempts(m) ==
    <<cmds_AnomaClient_parse_with_ctx(cmds_TxCustom_parse(m),
          "AnomaClientWithContext::TxCustom"),
      cmds_AnomaClient_parse_with_ctx(cmds_TxTransfer_parse(m),
          "AnomaClientWithContext::TxTransfer"),
      cmds_AnomaClient_parse_with_ctx(cmds_TxUpdateVp_parse(m),
          "AnomaClientWithContext::TxUpdateVp"),
      cmds_AnomaClient_parse_with_ctx(cmds_TxInitAccount_parse(m),
          "AnomaClientWithContext::TxInitAccount"),
      cmds_AnomaClient_parse_with_ctx(cmds_TxInitValidator_parse(m),
          "AnomaClientWithContext::TxInitValidator"),
      cmds_AnomaClient_parse_with_ctx(cmds_TxInitProposal_parse(m),
          "AnomaClientWithContext::TxInitProposal"),
      cmds_AnomaClient_parse_with_ctx(cmds_TxVoteProposal_parse(m),
          "AnomaClientWithContext::TxVoteProposal"),
      cmds_AnomaClient_parse_with_ctx(cmds_Bond_parse(m),
          "AnomaClientWithContext::Bond"),
      cmds_AnomaClient_parse_with_ctx(cmds_Unbond_parse(m),
          "AnomaClientWithContext::Unbond"),
      cmds_AnomaClient_parse_with_ctx(cmds_Withdraw_parse(m),
          "AnomaClientWithContext::Withdraw"),
      cmds_AnomaClient_parse_with_ctx(cmds_QueryEpoch_parse(m),
          "AnomaClientWithContext::QueryEpoch"),
      cmds_AnomaClient_parse_with_ctx(cmds_QueryBlock_parse(m),
          "AnomaClientWithContext::QueryBlock"),
      cmds_AnomaClient_parse_with_ctx(cmds_QueryBalance_parse(m),
          "AnomaClientWithContext::QueryBalance"),
      cmds_AnomaClient_parse_with_ctx(cmds_QueryBonds_parse(m),
          "AnomaClientWithContext::QueryBonds"),
      cmds_AnomaClient_parse_with_ctx(cmds_QueryVotingPower_parse(m),
          "AnomaClientWithContext::QueryVotingPower"),
      cmds_AnomaClient_parse_with_ctx(cmds_QuerySlashes_parse(m),
          "AnomaClientWithContext::QuerySlashes"),
      cmds_AnomaClient_parse_with_ctx(cmds_QueryResult_parse(m),
          "AnomaClientWithContext::QueryResult"),
      cmds_AnomaClient_parse_with_ctx(cmds_QueryRawBytes_parse(m),
          "AnomaClientWithContext::QueryRawBytes"),
      cmds_AnomaClient_parse_with_ctx(cmds_QueryProposal_parse(m),
          "AnomaClientWithContext::QueryProposal"),
      cmds_AnomaClient_parse_with_ctx(cmds_QueryProposalResult_parse(m),
          "AnomaClientWithContext::QueryProposalResult"),
      cmds_AnomaClient_parse_with_ctx(cmds_QueryProtocolParameters_parse(m),
          "AnomaClientWithContext::QueryProtocolParameters"),
      map(cmds_Utils_parse(m), "AnomaClient::WithoutContext")>>

cmds_AnomaClient_parse(m) ==
    or(cmds_AnomaClient_attempts(m))

\* impl SubCmd for AnomaClient
cmds_AnomaClient_SubCmd_parse(m) ==
    LET sm == subcommand_matches(m, CLIENT_CMD)
    IN IF sm = NoMatches THEN CmdNone ELSE cmds_AnomaClient_parse(sm)

cmds_AnomaClient_def ==
    cmds_AnomaClient_add_sub(SubcommandRequiredElseHelp(App_new(CLIENT_CMD)))

\* impl Cmd for AnomaWallet
cmds_AnomaWallet_add_sub(app) ==
    app_subcommands(app, <<cmds_WalletKey_def, cmds_WalletAddress_def>>)

\* The alternatives that AnomaWallet::parse chains with Option::or, in order.
cmds_AnomaWallet_attempts(m) ==
    <<map(cmds_WalletKey_parse(m), "AnomaWallet::Key"),
      map(cmds_WalletAddress_parse(m), "AnomaWallet::Address")>>

cmds_AnomaWallet_parse(m) ==
    or(cmds_AnomaWallet_attempts(m))

\* SubCmd::parse of AnomaWallet trying the `key` commands only instead of
\* delegating to the parse of the wallet executable.
cmds_AnomaWallet_SubCmd_parse_key_only(m) ==
    LET sm == subcommand_matches(m, WALLET_CMD)
    IN IF sm = NoMatches THEN CmdNone
       ELSE map(cmds_WalletKey_parse(sm), "AnomaWallet::Key")

\* impl SubCmd for AnomaWallet
cmds_AnomaWallet_SubCmd_parse(m) ==
    LET sm == subcommand_matches(m, WALLET_CMD)
    IN IF sm = NoMatches THEN CmdNone ELSE cmds_AnomaWallet_parse(sm)

cmds_AnomaWallet_def ==
    cmds_AnomaWallet_add_sub(SubcommandRequiredElseHelp(App_new(WALLET_CMD)))

\* Anoma::add_sub with the inlined `transfer` re-declared without the common
\* Tx arguments instead of reusing TxTransfer::def.
cmds_Anoma_add_sub_transfer_redeclared(app) ==
    app_subcommands(app,
        <<cmds_AnomaNode_def, cmds_AnomaClient_def, cmds_AnomaWallet_def,
          cmds_Ledger_def, cmds_TxCustom_def,
          app_args(App_new(cmds_TxTransfer_CMD),
                   <<SOURCE, TARGET, TOKEN, SUB_PREFIX, AMOUNT>>),
          cmds_TxUpdateVp_def, cmds_TxInitProposal_def,
          cmds_TxVoteProposal_def>>)

\* impl Cmd for Anoma
cmds_Anoma_add_sub(app) ==
    app_subcommands(app,
        <<cmds_AnomaNode_def, cmds_AnomaClient_def, cmds_AnomaWallet_def,
          cmds_Ledger_def, cmds_TxCustom_def, cmds_TxTransfer_def,
          cmds_TxUpdateVp_def, cmds_TxInitProposal_def,
          cmds_TxVoteProposal_def>>)

\* The alternatives that Anoma::parse chains with Option::or, in order.
cmds_Anoma_attempts(m) ==
    <<map(cmds_AnomaNode_SubCmd_parse(m), "Anoma::Node"),
      map(cmds_AnomaClient_SubCmd_parse(m), "Anoma::Client"),
      map(cmds_AnomaWallet_SubCmd_parse(m), "Anoma::Wallet"),
      map(cmds_Ledger_parse(m), "Anoma::Ledger"),
      map(cmds_TxCustom_parse(m), "Anoma::TxCustom"),
      map(cmds_TxTransfer_parse(m), "Anoma::TxTransfer"),
      map(cmds_TxUpdateVp_parse(m), "Anoma::TxUpdateVp"),
      map(cmds_TxInitProposal_parse(m), "Anoma::TxInitProposal"),
      map(cmds_TxVoteProposal_parse(m), "Anoma::TxVoteProposal")>>

cmds_Anoma_parse(m) ==
    or(cmds_Anoma_attempts(m))

(***************************************************************************)
(* The applications of the four executables.                               *)
(***************************************************************************)
APP_NAME == "Namada"

anoma_app ==
    cmds_Anoma_add_sub(
        args_Global_def(SubcommandRequiredElseHelp(App_new(APP_NAME))))

anoma_node_app ==
    cmds_AnomaNode_add_sub(
        args_Global_def(SubcommandRequiredElseHelp(App_new(APP_NAME))))

anoma_client_app ==
    cmds_AnomaClient_add_sub(
        args_Global_def(SubcommandRequiredElseHelp(App_new(APP_NAME))))

anoma_wallet_app ==
    cmds_AnomaWallet_add_sub(
        args_Global_def(SubcommandRequiredElseHelp(App_new(APP_NAME))))

(***************************************************************************)
(* Matching a command line against an application (clap::App::get_matches):*)
(* the tokens select nested sub-commands, the arguments given at a level   *)
(* must be declared there, and the declared constraints are validated.     *)
(* The outcome is "ok" (the matches are returned), "help" (help displayed  *)
(* because a required sub-command is missing) or "error" (usage error).    *)
(***************************************************************************)
ArgNames(app) == {app.args[i].name : i \in 1..Len(app.args)}

RequiredNames(app) ==
    {app.args[i].name : i \in {j \in 1..Len(app.args) : app.args[j].card = "req"}}

\* The keys that conflict with key k: declared on k or declared against k.
ConflictsOf(app, k) ==
    UNION {app.args[i].conflicts : i \in {j \in 1..Len(app.args) : app.args[j].name = k}}
    \cup {app.args[i].name : i \in {j \in 1..Len(app.args) : k \in app.args[j].conflicts}}

\* The validation of the arguments supplied at one level.
ValidArgs(app, supplied) ==
    /\ supplied \subseteq ArgNames(app)
    /\ \A k \in supplied : ConflictsOf(app, k) \cap supplied = {}
    /\ \A k \in RequiredNames(app) :
          k \in supplied \/ ConflictsOf(app, k) \cap supplied # {}
    /\ \A g \in app.groups :
          /\ g.required => g.args \cap supplied # {}
          /\ Cardinality(g.args \cap supplied) <= 1

\* The index of the first sub-command registered under the token, or 0.
FindSubcommand(app, token) ==
    IF \E i \in 1..Len(app.subcommands) : app.subcommands[i].name = token
    THEN CHOOSE i \in 1..Len(app.subcommands) :
            /\ app.subcommands[i].name = token
            /\ \A j \in 1..(i - 1) : app.subcommands[j].name # token
    ELSE 0

RECURSIVE get_matches_from(_, _, _)
get_matches_from(app, cmdline, lvl) ==
    LET supplied == DOMAIN matches_args(Matches(cmdline, {}, lvl)) IN
    IF ~(supplied \subseteq ArgNames(app)) THEN "error"
    ELSE IF lvl < Len(cmdline.path)
    THEN LET i == FindSubcommand(app, cmdline.path[lvl + 1]) IN
         IF i = 0 THEN "error"
         ELSE LET r == get_matches_from(app.subcommands[i], cmdline, lvl + 1) IN
              IF r # "ok" THEN r
              ELSE IF ValidArgs(app, supplied) THEN "ok" ELSE "error"
    ELSE IF app.sreh THEN "help"
    ELSE IF ValidArgs(app, supplied) THEN "ok" ELSE "error"

\* App::get_matches
get_matches(app, cmdline) == get_matches_from(app, cmdline, 0)

(***************************************************************************)
(* The explored command lines.                                             *)
(***************************************************************************)
Entries == {"anoma", "anoma-node", "anoma-client", "anoma-wallet"}

\* The subsets of S with at most n elements.
RECURSIVE KSub(_, _)
KSub(S, n) ==
    IF n = 0 THEN {{}}
    ELSE LET P == KSub(S, n - 1) IN P \cup {p \cup {x} : p \in P, x \in S}

\* The token paths that select a node of the application's tree.
RECURSIVE AllPaths(_)
AllPaths(app) ==
    {<<>>} \cup UNION {{<<app.subcommands[i].name>> \o p :
                           p \in AllPaths(app.subcommands[i])} :
                       i \in 1..Len(app.subcommands)}

\* Paths that select nothing: an unknown token, and the token of a command
\* that is defined but registered nowhere.
InvalidPaths == {<<"bogus">>, <<cmds_QueryCommissionRate_CMD>>}

\* The node selected by a path, the root for a path that selects nothing.
RECURSIVE NodeAt(_, _)
NodeAt(app, path) ==
    IF path = <<>> THEN app
    ELSE LET i == FindSubcommand(app, Head(path)) IN
         IF i = 0 THEN App_new("") ELSE NodeAt(app.subcommands[i], Tail(path))

\* A key that no command declares.
UnknownArg == "unknown-arg"

DescriptorOf(app, k) ==
    IF k \in ArgNames(app)
    THEN app.args[CHOOSE i \in 1..Len(app.args) : app.args[i].name = k]
    ELSE arg_opt(k, "String")

\* The texts tried for the arguments with a fixed vocabulary.
Words(ty) ==
    CASE ty = "ProposalVote" -> <<"yay", "nay", "yay">>
      [] ty = "SchemeType" -> <<"ed25519", "secp256k1", "ed25519">>
      [] OTHER -> <<"validator", "full", "seed">>

\* The type whose vocabulary the text of a key is taken from, if any.
VocabularyType(d) ==
    IF d.name = MODE.name THEN "TendermintMode"
    ELSE IF Vocabulary(d.ty) # {} THEN d.ty ELSE None

\* The raw text given for a key: malformed, a word of its vocabulary, or a
\* well-formed text that names the key.
RawText(d, isBad, word) ==
    IF d.card = "flag" THEN ""
    ELSE IF isBad THEN BadText
    ELSE IF VocabularyType(d) # None THEN Words(VocabularyType(d))[word]
    ELSE d.name

GlobalApp == args_Global_def(App_new(APP_NAME))

\* The application a dispatcher matches the command line against.
anoma_client_cli_app == cmds_AnomaClient_add_sub(anoma_client_app)

AppOf(e) ==
    CASE e = "anoma" -> anoma_app
      [] e = "anoma-client" -> anoma_client_cli_app
      [] e = "anoma-node" -> anoma_node_app
      [] e = "anoma-wallet" -> anoma_wallet_app

\* The choices that make up a command line and an environment.  The tag of
\* a key tells where it is given: "l" after the last token of the path, "g"
\* before the first one, "e" in the environment with its Unicode text, "u"
\* in the environment with bytes that are not valid Unicode.
TaggedDescriptor(node, t) ==
    IF t[1] = "l" THEN DescriptorOf(node, t[2]) ELSE DescriptorOf(GlobalApp, t[2])

\* For the node selected by a path: its required keys (req), what may be
\* supplied on top of them (extras: its optional arguments, an undeclared
\* one, the global arguments, the environment variables), the descriptor
\* of each key (desc), the keys it declares (declared) and whether it
\* requires a sub-command (sreh).
NodeInfo(app, path) ==
    LET node == NodeAt(app, path)
        req == IF Len(path) > 0 THEN RequiredNames(node) ELSE {}
        extras == {<<"l", k>> : k \in IF Len(path) > 0
                                      THEN (ArgNames(node) \ req) \cup {UnknownArg}
                                      ELSE {}}
                    \cup {<<"g", k>> : k \in ArgNames(GlobalApp)}
                    \cup {<<"e", v>> : v \in EnvVars}
                    \cup {<<"u", v>> : v \in EnvVars}
    IN [req |-> req,
        extras |-> extras,
        declared |-> IF Len(path) > 0 THEN ArgNames(node) ELSE {},
        sreh |-> node.sreh,
        desc |-> [t \in {u \in extras : u[1] \notin {"e", "u"}} \cup {<<"l", k>> : k \in req}
                    |-> TaggedDescriptor(node, t)]]

InputTable ==
    [e \in Entries |->
        [path \in AllPaths(AppOf(e)) \cup InvalidPaths |-> NodeInfo(AppOf(e), path)]]

\* The keys supplied under a tag when the required keys om are omitted and
\* the extras ex are supplied.
SuppliedKeys(info, om, ex, tag) ==
    {t[2] : t \in {u \in ex : u[1] = tag}}
      \cup (IF tag = "l" THEN info.req \ om ELSE {})

\* The supplied arguments that carry a text.
ValuedArgs(info, om, ex) ==
    {t \in {<<"l", k>> : k \in SuppliedKeys(info, om, ex, "l")}
             \cup {<<"g", k>> : k \in SuppliedKeys(info, om, ex, "g")} :
        info.desc[t].card # "flag"}

\* The choices of vocabulary word that make a difference.
WordChoices(info, valued, bad) ==
    IF \E t \in valued \ bad : VocabularyType(info.desc[t]) # None
    THEN 1..3 ELSE {1}

\* The command line and environment made of the choices.
Input(info, path, om, ex, bad, word) ==
    [line |-> [path |-> path,
               gargs |-> [k \in SuppliedKeys(info, om, ex, "g") |->
                   RawText(info.desc[<<"g", k>>], <<"g", k>> \in bad, word)],
               largs |-> [k \in SuppliedKeys(info, om, ex, "l") |->
                   RawText(info.desc[<<"l", k>>], <<"l", k>> \in bad, word)]],
     env |-> [v \in SuppliedKeys(info, om, ex, "e")
                       \cup SuppliedKeys(info, om, ex, "u") |->
                 IF v \in SuppliedKeys(info, om, ex, "u")
                 THEN NotUnicodeBytes ELSE EnvValue(v)]]

(***************************************************************************)
(* One invocation of a dispatcher.                                         *)
(***************************************************************************)
VARIABLES
    entry,          \* the executable's dispatcher: an element of Entries
    line,           \* the command line (path, gargs, largs)
    env,            \* the environment: the variables set and what they hold
    pc,             \* the dispatcher's position
    cmd,            \* the result of the root command's parse
    raw_sub_cmd,    \* anoma_cli: the raw selected top-level token
    global_args,    \* the parsed args::Global, UnitArgs before the parse
    context,        \* the result of Context::new
    result,         \* the value returned to the caller
    outcome,        \* how the invocation ended, "running" before
    exit_code,      \* the exit status when the process was exited, else -1
    help_printed,   \* usage/help was displayed
    trace           \* the calls made so far, in order

vars == <<entry, line, env, pc, cmd, raw_sub_cmd, global_args, context,
          result, outcome, exit_code, help_printed, trace>>

\* The exit statuses that an exit made by the argument matcher or by an
\* argument conversion may carry: the exit is made outside this file, which
\* fixes the status of the dispatchers' own exits alone (safe_exit(2)).
ParserExitCodes == {1, 2}

NoContext == [tag |-> "None", global_args |-> UnitArgs]

\* Context::new(global_args): the Context that owns the Global arguments,
\* or the error of its construction.
Context_new(global, ok) ==
    [tag |-> IF ok THEN "Ok" ELSE "Err", global_args |-> global]

NoResult ==
    [kind |-> "None", cmd |-> CmdNone, raw_sub_cmd |-> None,
     global_args |-> UnitArgs, context |-> NoContext]

\* The matches of the invocation's command line.
RootMatches == Matches(line, env, 0)

Init ==
    /\ entry \in Entries
    /\ \E path \in DOMAIN InputTable[entry] :
         LET info == InputTable[entry][path] IN
         \E om \in KSub(info.req, MaxChanges) :
           \E ex \in {x \in KSub(info.extras, MaxChanges - Cardinality(om)) :
                         SuppliedKeys(info, om, x, "e")
                           \cap SuppliedKeys(info, om, x, "u") = {}} :
             \E bad \in KSub(ValuedArgs(info, om, ex),
                             MaxChanges - Cardinality(om) - Cardinality(ex)) :
               \E word \in WordChoices(info, ValuedArgs(info, om, ex), bad) :
                 LET inp == Input(info, path, om, ex, bad, word) IN
                 line = inp.line /\ env = inp.env
    /\ pc = "start"
    /\ cmd = CmdNone
    /\ raw_sub_cmd = None
    /\ global_args = UnitArgs
    /\ context = NoContext
    /\ result = NoResult
    /\ outcome = "running"
    /\ exit_code = -1
    /\ help_printed = FALSE
    /\ trace = <<>>

\* The process is exited.
ExitProcess(how, code, help) ==
    /\ pc' = "done"
    /\ outcome' = how
    /\ exit_code' = code
    /\ help_printed' = help
    /\ result' = NoResult

\* The process is exited by the argument matcher or by an argument
\* conversion.
ParserExit(how, help) ==
    \E code \in ParserExitCodes : ExitProcess(how, code, help)

\* The dispatcher returns a value.
Return(how, value) ==
    /\ pc' = "done"
    /\ outcome' = how
    /\ result' = value
    /\ UNCHANGED <<exit_code, help_printed>>

\* `app.get_matches()`, in every dispatcher.
GetMatches ==
    /\ pc = "start"
    /\ trace' = Append(trace, "get_matches")
    /\ LET r == get_matches(AppOf(entry), line) IN
         CASE r = "ok" ->
                /\ pc' = "matched"
                /\ UNCHANGED <<outcome, exit_code, help_printed, result>>
           [] r = "help" -> ParserExit("help_exit", TRUE)
           [] OTHER -> ParserExit("usage_error", FALSE)
    /\ UNCHANGED <<entry, line, env, cmd, raw_sub_cmd, global_args, context>>

\* anoma_cli taking the raw token from the innermost selected sub-command
\* instead of the one selected at the top level.
AnomaCliParse_innermost_token ==
    /\ entry = "anoma" /\ pc = "matched"
    /\ trace' = Append(trace, "cmd_parse")
    /\ raw_sub_cmd' = IF Len(line.path) > 0 THEN line.path[Len(line.path)] ELSE None
    /\ cmd' = cmds_Anoma_parse(RootMatches)
    /\ IF cmd'.tag = "Exit"
       THEN ParserExit("parse_error", FALSE)
       ELSE /\ pc' = "parsed"
            /\ UNCHANGED <<outcome, exit_code, help_printed, result>>
    /\ UNCHANGED <<entry, line, env, global_args, context>>

\* anoma_cli: `matches.subcommand()` and `cmds::Anoma::parse(&matches)`.
AnomaCliParse ==
    /\ entry = "anoma" /\ pc = "matched"
    /\ trace' = Append(trace, "cmd_parse")
    /\ raw_sub_cmd' = subcommand_name(RootMatches)
    /\ cmd' = cmds_Anoma_parse(RootMatches)
    /\ IF cmd'.tag = "Exit"
       THEN ParserExit("parse_error", FALSE)
       ELSE /\ pc' = "parsed"
            /\ UNCHANGED <<outcome, exit_code, help_printed, result>>
    /\ UNCHANGED <<entry, line, env, global_args, context>>

\* anoma_cli: `match (result, raw_sub_cmd)`.
AnomaCliMatch ==
    /\ entry = "anoma" /\ pc = "parsed"
    /\ IF cmd.tag = "Some" /\ raw_sub_cmd # None
       THEN /\ Return("returned",
                      [NoResult EXCEPT !.kind = "Anoma", !.cmd = cmd,
                                       !.raw_sub_cmd = raw_sub_cmd])
            /\ trace' = trace
       ELSE /\ ExitProcess("help_exit", 2, TRUE)
            /\ trace' = Append(trace, "print_help")
    /\ UNCHANGED <<entry, line, env, cmd, raw_sub_cmd, global_args, context>>

\* anoma_client_cli constructing the Context ahead of `Cmd::parse`.
AnomaClientCliParse_context_first ==
    /\ entry = "anoma-client" /\ pc = "matched"
    /\ context' = Context_new(args_Global_parse(Matches(line, env, 0)), TRUE)
    /\ cmd' = cmds_AnomaClient_parse(Matches(line, env, 0))
    /\ CASE cmd'.tag = "Exit" ->
              /\ ExitProcess("parse_error", 2, FALSE)
              /\ trace' = trace \o <<"context_new", "cmd_parse">>
         [] cmd'.tag = "None" ->
              /\ ExitProcess("help_exit", 2, TRUE)
              /\ trace' = trace \o <<"context_new", "cmd_parse", "print_help">>
         [] OTHER ->
              /\ pc' = "parsed"
              /\ trace' = trace \o <<"context_new", "cmd_parse">>
              /\ UNCHANGED <<outcome, exit_code, help_printed, result>>
    /\ UNCHANGED <<entry, line, env, raw_sub_cmd, global_args>>

\* anoma_client_cli: `match Cmd::parse(&matches)`.
AnomaClientCliParse ==
    /\ entry = "anoma-client" /\ pc = "matched"
    /\ cmd' = cmds_AnomaClient_parse(RootMatches)
    /\ CASE cmd'.tag = "Exit" ->
              /\ ParserExit("parse_error", FALSE)
              /\ trace' = Append(trace, "cmd_parse")
         [] cmd'.tag = "None" ->
              /\ ExitProcess("help_exit", 2, TRUE)
              /\ trace' = trace \o <<"cmd_parse", "print_help">>
         [] OTHER ->
              /\ pc' = "parsed"
              /\ trace' = Append(trace, "cmd_parse")
              /\ UNCHANGED <<outcome, exit_code, help_printed, result>>
    /\ UNCHANGED <<entry, line, env, raw_sub_cmd, global_args, context>>

\* anoma_client_cli: `let global_args = args::Global::parse(&matches)`.
AnomaClientCliGlobal ==
    /\ entry = "anoma-client" /\ pc = "parsed"
    /\ trace' = Append(trace, "global_parse")
    /\ global_args' = args_Global_parse(RootMatches)
    /\ IF global_args' = FailedArgs
       THEN ParserExit("parse_error", FALSE)
       ELSE /\ pc' = "global"
            /\ UNCHANGED <<outcome, exit_code, help_printed, result>>
    /\ UNCHANGED <<entry, line, env, cmd, raw_sub_cmd, context>>

\* The WithContext arm matching every command.
IsWithContext_any(c) == c.tag = "Some"

IsWithContext(c) ==
    c.tag = "Some" /\ Head(c.variants) = "AnomaClient::WithContext"

\* The WithoutContext arm matching every command.
IsWithoutContext_any(c) == c.tag = "Some"

IsWithoutContext(c) ==
    c.tag = "Some" /\ Head(c.variants) = "AnomaClient::WithoutContext"

\* The command wrapped by the outermost variant.
sub_cmd(c) == [c EXCEPT !.variants = Tail(@)]

\* The WithContext arm constructing the Context from the Global arguments of
\* the sub-command's matches instead of the root's.
AnomaClientCliWithContext_sub_matches ==
    /\ entry = "anoma-client" /\ pc = "global"
    /\ IsWithContext(cmd)
    /\ trace' = Append(trace, "context_new")
    /\ \E ok \in BOOLEAN :
         /\ context' = Context_new(args_Global_parse(Matches(line, env, 1)), ok)
         /\ IF ok
            THEN Return("returned",
                        [NoResult EXCEPT !.kind = "AnomaClient::WithContext",
                                         !.cmd = sub_cmd(cmd),
                                         !.context = context'])
            ELSE Return("error_returned",
                        [NoResult EXCEPT !.kind = "Err", !.context = context'])
    /\ UNCHANGED <<entry, line, env, cmd, raw_sub_cmd, global_args>>

\* The WithContext arm printing the help and exiting when Context::new
\* fails instead of returning the error.
AnomaClientCliWithContext_help_on_error ==
    /\ entry = "anoma-client" /\ pc = "global"
    /\ IsWithContext(cmd)
    /\ \E ok \in BOOLEAN :
         /\ context' = Context_new(global_args, ok)
         /\ IF ok
            THEN /\ Return("returned",
                           [NoResult EXCEPT !.kind = "AnomaClient::WithContext",
                                            !.cmd = sub_cmd(cmd),
                                            !.context = context'])
                 /\ trace' = Append(trace, "context_new")
            ELSE /\ ExitProcess("help_exit", 2, TRUE)
                 /\ trace' = trace \o <<"context_new", "print_help">>
    /\ UNCHANGED <<entry, line, env, cmd, raw_sub_cmd, global_args>>

\* anoma_client_cli: the arm `cmds::AnomaClient::WithContext(sub_cmd)`.
AnomaClientCliWithContext ==
    /\ entry = "anoma-client" /\ pc = "global"
    /\ IsWithContext(cmd)
    /\ trace' = Append(trace, "context_new")
    /\ \E ok \in BOOLEAN :
         /\ context' = Context_new(global_args, ok)
         /\ IF ok
            THEN Return("returned",
                        [NoResult EXCEPT !.kind = "AnomaClient::WithContext",
                                         !.cmd = sub_cmd(cmd),
                                         !.context = context'])
            ELSE Return("error_returned",
                        [NoResult EXCEPT !.kind = "Err", !.context = context'])
    /\ UNCHANGED <<entry, line, env, cmd, raw_sub_cmd, global_args>>

\* The WithoutContext arm falling into the help-and-exit arm.
AnomaClientCliWithoutContext_help ==
    /\ entry = "anoma-client" /\ pc = "global"
    /\ IsWithoutContext(cmd)
    /\ ExitProcess("help_exit", 2, TRUE)
    /\ trace' = Append(trace, "print_help")
    /\ UNCHANGED <<entry, line, env, cmd, raw_sub_cmd, global_args, context>>

\* anoma_client_cli: the arm `cmds::AnomaClient::WithoutContext(sub_cmd)`.
AnomaClientCliWithoutContext ==
    /\ entry = "anoma-client" /\ pc = "global"
    /\ IsWithoutContext(cmd)
    /\ Return("returned",
              [NoResult EXCEPT !.kind = "AnomaClient::WithoutContext",
                               !.cmd = sub_cmd(cmd),
                               !.global_args = global_args])
    /\ UNCHANGED <<entry, line, env, cmd, raw_sub_cmd, global_args, context,
                   trace>>

\* The root command's parse of the node and wallet executables.
RootParse(e, m) ==
    IF e = "anoma-node" THEN cmds_AnomaNode_parse(m) ELSE cmds_AnomaWallet_parse(m)

\* Cmd::parse_or_print_help (anoma_node_cli, anoma_wallet_cli): the global
\* arguments are parsed from the matched input before the dispatch.
ParseOrPrintHelpGlobal ==
    /\ entry \in {"anoma-node", "anoma-wallet"} /\ pc = "matched"
    /\ trace' = Append(trace, "global_parse")
    /\ global_args' = args_Global_parse(RootMatches)
    /\ IF global_args' = FailedArgs
       THEN ParserExit("parse_error", FALSE)
       ELSE /\ pc' = "global"
            /\ UNCHANGED <<outcome, exit_code, help_printed, result>>
    /\ UNCHANGED <<entry, line, env, cmd, raw_sub_cmd, context>>

\* Cmd::parse_or_print_help: the root command's parse; nothing matched
\* prints the help and exits.
ParseOrPrintHelpParse ==
    /\ entry \in {"anoma-node", "anoma-wallet"} /\ pc = "global"
    /\ cmd' = RootParse(entry, RootMatches)
    /\ CASE cmd'.tag = "Exit" ->
              /\ ParserExit("parse_error", FALSE)
              /\ trace' = Append(trace, "cmd_parse")
         [] cmd'.tag = "None" ->
              /\ ExitProcess("help_exit", 2, TRUE)
              /\ trace' = trace \o <<"cmd_parse", "print_help">>
         [] OTHER ->
              /\ pc' = "parsed"
              /\ trace' = Append(trace, "cmd_parse")
              /\ UNCHANGED <<outcome, exit_code, help_printed, result>>
    /\ UNCHANGED <<entry, line, env, raw_sub_cmd, global_args, context>>

\* Cmd::parse_or_print_help: the Context is constructed and returned with
\* the command.
ParseOrPrintHelpContext ==
    /\ entry \in {"anoma-node", "anoma-wallet"} /\ pc = "parsed"
    /\ trace' = Append(trace, "context_new")
    /\ \E ok \in BOOLEAN :
         /\ context' = Context_new(global_args, ok)
         /\ IF ok
            THEN Return("returned",
                        [NoResult EXCEPT !.kind = "Ok", !.cmd = cmd,
                                         !.context = context'])
            ELSE Return("error_returned",
                        [NoResult EXCEPT !.kind = "Err", !.context = context'])
    /\ UNCHANGED <<entry, line, env, cmd, raw_sub_cmd, global_args>>

Next ==
    \/ GetMatches
    \/ AnomaCliParse
    \/ AnomaCliMatch
    \/ AnomaClientCliParse
    \/ AnomaClientCliGlobal
    \/ AnomaClientCliWithContext
    \/ AnomaClientCliWithoutContext
    \/ ParseOrPrintHelpGlobal
    \/ ParseOrPrintHelpParse
    \/ ParseOrPrintHelpContext

Spec == Init /\ [][Next]_vars

(***************************************************************************)
(* Properties.  The calls of a run are read off its trace.                 *)
(***************************************************************************)
\* The number of calls of e made so far.
Calls(e) == Cardinality({i \in DOMAIN trace : trace[i] = e})

\* Every call of a made so far precedes every call of b.
Precedes(a, b) ==
    \A i, j \in DOMAIN trace : (trace[i] = a /\ trace[j] = b) => i < j

\* What is known of the node the command line selects.
Selected == InputTable[entry][line.path]

\* The last token of the command line, if any.
LastToken == IF Len(line.path) > 0 THEN line.path[Len(line.path)] ELSE None

\* The parsed command is wrapped in the given variant of cmds::AnomaClient.
ClientVariant(v) == cmd.tag = "Some" /\ Head(cmd.variants) = v

\* C1 (as stated): in anoma_client_cli, on every run whose selected command
\* is a WithContext variant, Context::new is called exactly once, with the
\* Global arguments parsed from the same matched input, and the returned
\* value pairs that command with the constructed Context.
C1_Original ==
    (entry = "anoma-client" /\ pc = "done"
       /\ ClientVariant("AnomaClient::WithContext"))
    => /\ Calls("context_new") = 1
       /\ context.global_args = args_Global_parse(RootMatches)
       /\ result.kind = "AnomaClient::WithContext"
       /\ result.cmd = sub_cmd(cmd)
       /\ result.context = context

\* C1 (amended): in anoma_client_cli, on every run whose selected command is
\* a WithContext variant, Context::new is called exactly once when the
\* Global arguments parse and not at all when they fail to parse (the
\* process then terminates); it is called with the Global arguments parsed
\* from the same matched input; when it succeeds the returned value pairs
\* that command with the constructed Context, and when it fails its error
\* is returned instead.
C1_ContextOncePerWithContext ==
    (entry = "anoma-client" /\ pc = "done"
       /\ ClientVariant("AnomaClient::WithContext"))
    => /\ Calls("global_parse") = 1
       /\ global_args = args_Global_parse(RootMatches)
       /\ IF global_args = FailedArgs
          THEN /\ Calls("context_new") = 0
               /\ context = NoContext
               /\ outcome = "parse_error"
          ELSE /\ Calls("context_new") = 1
               /\ context.global_args = args_Global_parse(RootMatches)
               /\ context.tag \in {"Ok", "Err"}
               /\ context.tag = "Ok" =>
                    /\ outcome = "returned"
                    /\ result.kind = "AnomaClient::WithContext"
                    /\ result.cmd = sub_cmd(cmd)
                    /\ result.context = context
               /\ context.tag = "Err" =>
                    /\ outcome = "error_returned"
                    /\ result.kind = "Err"
                    /\ result.cmd = CmdNone

\* A WithContext command was returned with a Context constructed from
\* Global arguments given on the command line and in the environment.
C1_Witness ==
    /\ entry = "anoma-client" /\ outcome = "returned"
    /\ ClientVariant("AnomaClient::WithContext")
    /\ result.context.tag = "Ok"
    /\ DOMAIN line.gargs # {}
    /\ DOMAIN env # {}

\* C2: in anoma_client_cli, on every run whose selected command is a
\* WithoutContext variant (a `utils` sub-command), Context::new is never
\* called and the result carries the parsed Global arguments instead of a
\* Context.
C2_NoContextForWithoutContext ==
    (entry = "anoma-client"
       /\ \/ ClientVariant("AnomaClient::WithoutContext")
          \/ (Len(line.path) > 0 /\ line.path[1] = cmds_Utils_CMD))
    => /\ Calls("context_new") = 0
       /\ context = NoContext
       /\ cmd.tag = "Some" =>
            /\ ClientVariant("AnomaClient::WithoutContext")
            /\ line.path[1] = cmds_Utils_CMD
            /\ cmd.variants[2] \in {"Utils::JoinNetwork", "Utils::FetchWasms",
                                    "Utils::InitNetwork",
                                    "Utils::InitGenesisValidator"}
       /\ (pc = "done" /\ cmd.tag = "Some") =>
            /\ global_args = args_Global_parse(RootMatches)
            /\ IF global_args = FailedArgs
               THEN outcome = "parse_error"
               ELSE /\ outcome = "returned"
                    /\ result.kind = "AnomaClient::WithoutContext"
                    /\ result.cmd = sub_cmd(cmd)
                    /\ result.global_args = global_args
                    /\ result.context = NoContext

\* A `utils` command was returned with Global arguments given on the
\* command line.
C2_Witness ==
    /\ entry = "anoma-client" /\ outcome = "returned"
    /\ ClientVariant("AnomaClient::WithoutContext")
    /\ DOMAIN line.gargs # {}
    /\ result.global_args = args_Global_parse(RootMatches)

\* C3: in every dispatcher the Global arguments are parsed exactly once per
\* invocation, and that parse happens before any sub-command-specific
\* parsing, whichever command ends up selected.
C3_Original ==
    (pc = "done" /\ Calls("cmd_parse") > 0)
    => /\ Calls("global_parse") = 1
       /\ Precedes("global_parse", "cmd_parse")

\* anoma_cli returned a command although Global arguments were given on the
\* command line: they were never parsed.
C3_Witness ==
    /\ entry = "anoma" /\ outcome = "returned"
    /\ DOMAIN line.gargs # {}
    /\ Calls("cmd_parse") = 1
    /\ Calls("global_parse") = 0
    /\ global_args = UnitArgs

\* What each dispatcher does with the Global arguments: anoma_cli never
\* parses them; anoma_client_cli parses them at most once, after the
\* command's parsing and before Context::new, exactly when a command was
\* selected and parsed; Cmd::parse_or_print_help parses them at most once
\* and before the command's parsing.
GlobalParseOfEachDispatcher ==
    /\ entry = "anoma" =>
         /\ Calls("global_parse") = 0
         /\ global_args = UnitArgs
    /\ entry = "anoma-client" =>
         /\ Calls("global_parse") <= 1
         /\ Calls("cmd_parse") <= 1
         /\ Precedes("cmd_parse", "global_parse")
         /\ Precedes("global_parse", "context_new")
         /\ Calls("global_parse") = 1 => cmd.tag = "Some"
         /\ Calls("context_new") > 0 => Calls("global_parse") = 1
         /\ (pc = "done" /\ cmd.tag = "Some") =>
              /\ Calls("global_parse") = 1
              /\ global_args = args_Global_parse(RootMatches)
    /\ entry \in {"anoma-node", "anoma-wallet"} =>
         /\ Calls("global_parse") <= 1
         /\ Precedes("global_parse", "cmd_parse")
         /\ Calls("cmd_parse") > 0 => Calls("global_parse") = 1

\* The client dispatcher returned a command after parsing Global arguments
\* given on the command line, the command first.
ClientParsedGlobalAfterCommand ==
    /\ entry = "anoma-client" /\ outcome = "returned"
    /\ Calls("global_parse") = 1
    /\ DOMAIN line.gargs # {}
    /\ trace[2] = "cmd_parse" /\ trace[3] = "global_parse"

\* C4: every run of anoma_client_cli that ends in a help display, a
\* no-command-matched exit or an argument parse failure terminates before
\* Context::new is called: all matching and all parsing, of the command and
\* of the Global arguments, precede the construction of the Context.
C4_NoContextBeforeFailure ==
    entry = "anoma-client" =>
      /\ outcome \in {"help_exit", "usage_error", "parse_error"} =>
           /\ Calls("context_new") = 0
           /\ context = NoContext
      /\ \A i \in DOMAIN trace :
           trace[i] = "context_new" =>
             /\ i = Len(trace)
             /\ \E j \in 1..(i - 1) : trace[j] = "cmd_parse"
             /\ \E j \in 1..(i - 1) : trace[j] = "global_parse"
      /\ Calls("context_new") > 0 =>
           /\ outcome \in {"returned", "error_returned"}
           /\ cmd.tag = "Some"
           /\ global_args # FailedArgs

\* The client dispatcher terminated in the parse of the Global arguments of
\* a WithContext command, without a Context.
C4_Witness ==
    /\ entry = "anoma-client" /\ outcome = "parse_error"
    /\ ClientVariant("AnomaClient::WithContext")
    /\ global_args = FailedArgs
    /\ context = NoContext

\* A sub-command is required where the command line ends.
RequiredSubcommandMissing ==
    /\ Selected.sreh
    /\ DOMAIN line.largs \subseteq Selected.declared

\* A command line that selects no command (no token, a token that no
\* command bears, or a missing required sub-command) never yields a command
\* value: the invocation ends inside the matcher, before the dispatcher's
\* own `print_help` and `safe_exit(2)`, which no invocation reaches.
NoCommandNeverReturns ==
    /\ (pc = "done"
          /\ \/ line.path = <<>>
             \/ line.path \notin DOMAIN InputTable[entry]
             \/ line.path \in InvalidPaths
             \/ RequiredSubcommandMissing)
       => /\ outcome \in {"help_exit", "usage_error"}
          /\ result = NoResult
          /\ trace = <<"get_matches">>
          /\ exit_code \in ParserExitCodes
    /\ entry \in {"anoma", "anoma-client"} => Calls("print_help") = 0

\* The combined executable was invoked with no sub-command token and was
\* exited by the matcher with the help displayed.
NoTokenExitedInMatcher ==
    /\ entry = "anoma" /\ line.path = <<>> /\ pc = "done"
    /\ outcome = "help_exit" /\ help_printed
    /\ trace = <<"get_matches">>

\* C6 (as stated): every invocation of a dispatcher ends in one of three
\* outcomes: it returns a command value, or it prints the usage and exits
\* because nothing matched, or it terminates with a parser error; no
\* invocation returns without a command value.
C6_Original ==
    pc = "done"
    => /\ outcome \in {"returned", "help_exit", "usage_error", "parse_error"}
       /\ outcome = "returned" => result.cmd.tag = "Some"

\* C6 (amended): every invocation of a dispatcher ends in exactly one of
\* four outcomes: it returns one command value; or it prints the usage and
\* exits because no command was matched; or it terminates with a parser
\* error (a constraint violation or an argument that failed to parse); or,
\* in the dispatchers that construct a Context, it returns the error of the
\* Context's construction without a command value.  anoma_cli has the first
\* three only.
C6_FourOutcomes ==
    pc = "done"
    => /\ outcome \in {"returned", "help_exit", "usage_error", "parse_error",
                       "error_returned"}
       /\ outcome = "returned" =>
            /\ cmd.tag = "Some" /\ result.cmd.tag = "Some"
            /\ result.kind # "Err"
            /\ exit_code = -1 /\ ~help_printed
            /\ context.tag \in {"None", "Ok"}
            /\ result.context = context
            /\ entry = "anoma" =>
                 /\ result.cmd = cmd
                 /\ result.raw_sub_cmd = line.path[1]
            /\ entry = "anoma-client" => result.cmd = sub_cmd(cmd)
       /\ outcome = "help_exit" =>
            /\ cmd.tag # "Some" /\ result = NoResult
            /\ help_printed /\ exit_code # -1
       /\ outcome \in {"usage_error", "parse_error"} =>
            /\ result = NoResult /\ exit_code # -1
            /\ context = NoContext
       /\ outcome = "error_returned" =>
            /\ entry # "anoma"
            /\ context.tag = "Err"
            /\ result.kind = "Err" /\ result.cmd = CmdNone
            /\ exit_code = -1

\* The client dispatcher returned the error of Context::new.
C6_Witness ==
    /\ entry = "anoma-client" /\ outcome = "error_returned"
    /\ context.tag = "Err"
    /\ result.cmd = CmdNone

\* The parsed structure has the field and its value is not None.
IsSet(a, f) == f \in DOMAIN a /\ a[f] # NoneVal

\* C7: for every command whose definition includes the common transaction
\* arguments (Tx), an invocation that supplies both --signing-key and
\* --signer is rejected with a constraint violation before the command's
\* parse runs; no parsed Tx value has both signing_key and signer set.
C7_SigningKeyConflictsWithSigner ==
    /\ (pc # "start"
          /\ {SIGNING_KEY_OPT.name, SIGNER.name}
                \subseteq (Selected.declared \cap DOMAIN line.largs))
       => /\ outcome = "usage_error"
          /\ trace = <<"get_matches">>
          /\ cmd = CmdNone
    /\ cmd.tag = "Some" =>
         ~(IsSet(cmd.args, <<"tx", "signing_key">>)
             /\ IsSet(cmd.args, <<"tx", "signer">>))
    /\ result.cmd.tag = "Some" =>
         ~(IsSet(result.cmd.args, <<"tx", "signing_key">>)
             /\ IsSet(result.cmd.args, <<"tx", "signer">>))

\* A transaction command given both --signing-key and --signer, and nothing
\* else out of order, was rejected.
C7_Witness ==
    /\ pc = "done" /\ outcome = "usage_error"
    /\ LastToken = cmds_TxTransfer_CMD
    /\ {SIGNING_KEY_OPT.name, SIGNER.name} \subseteq DOMAIN line.largs
    /\ DOMAIN line.largs \subseteq Selected.declared
    /\ Selected.req \subseteq DOMAIN line.largs

\* The commands that declare a proposal id and an offline data path.
ProposalCommands == {cmds_TxVoteProposal_CMD, cmds_QueryProposalResult_CMD}

\* The fields of args::VoteProposal and args::QueryProposalResult that hold
\* the data path.
ProposalDataFields == {<<"", "proposal_data">>, <<"", "proposal_folder">>}

\* The parsed structure has a proposal id together with offline = true or a
\* data path.
ProposalIdWithOffline(a) ==
    /\ IsSet(a, <<"", "proposal_id">>)
    /\ \/ (<<"", "offline">> \in DOMAIN a /\ a[<<"", "offline">>] = BoolVal(TRUE))
       \/ \E f \in ProposalDataFields : IsSet(a, f)

\* C8: in vote-proposal and in query-proposal-result, supplying
\* --proposal-id together with --data-path or together with --offline is
\* rejected before the command's parse runs, in the same way for both; no
\* parsed VoteProposal or QueryProposalResult has proposal_id set together
\* with offline = true or a data path.
C8_ProposalIdConflictsWithOffline ==
    /\ (pc # "start" /\ LastToken \in ProposalCommands
          /\ PROPOSAL_ID.name \in DOMAIN line.largs
          /\ {DATA_PATH_OPT.name, PROPOSAL_OFFLINE.name} \cap DOMAIN line.largs # {})
       => /\ outcome = "usage_error"
          /\ trace = <<"get_matches">>
          /\ cmd = CmdNone
    /\ (cmd.tag = "Some" /\ LastToken \in ProposalCommands) =>
         ~ProposalIdWithOffline(cmd.args)
    /\ (result.cmd.tag = "Some" /\ LastToken \in ProposalCommands) =>
         ~ProposalIdWithOffline(result.cmd.args)

\* query-proposal-result given --proposal-id and --offline was rejected.
C8_Witness ==
    /\ pc = "done" /\ outcome = "usage_error"
    /\ LastToken = cmds_QueryProposalResult_CMD
    /\ DOMAIN line.largs = {PROPOSAL_ID.name, PROPOSAL_OFFLINE.name}

\* The required arguments the claim names, by the command's token.
NamedRequired(token) ==
    CASE token = "tx" -> {"code-path"}
      [] token = "transfer" -> {"source", "target", "token", "amount"}
      [] token = "vote-proposal" -> {"vote"}
      [] token = "add" -> {"alias", "address"}
      [] OTHER -> {}

\* C9: for every command and every argument it declares as Required, an
\* invocation that omits that argument never yields a command value: it
\* ends in an error, never in an implicit default for the missing field.
C9_MissingRequiredIsAnError ==
    (Len(line.path) > 0 /\ line.path \notin InvalidPaths
       /\ (Selected.req \cup NamedRequired(LastToken)) \ DOMAIN line.largs # {})
    => /\ outcome \notin {"returned", "error_returned"}
       /\ cmd.tag # "Some"
       /\ result = NoResult
       /\ pc = "done" => (outcome = "usage_error" /\ exit_code # -1)

\* A transfer without --amount has ended in an error.
C9_Witness ==
    /\ pc = "done" /\ outcome = "usage_error"
    /\ LastToken = cmds_TxTransfer_CMD
    /\ Selected.req \ DOMAIN line.largs = {AMOUNT.name}
    /\ DOMAIN line.largs \subseteq Selected.declared

\* The key is supplied in the arguments with a text outside the vocabulary.
OutOfVocabulary(args, key, ty) ==
    key \in DOMAIN args /\ args[key] \notin Vocabulary(ty)

\* C10: supplying --vote, --scheme or --mode with a value outside its
\* vocabulary always fails parsing and never defaults.
C10_Original ==
    (pc = "done"
       /\ \/ OutOfVocabulary(line.largs, "vote", "ProposalVote")
          \/ OutOfVocabulary(line.largs, "scheme", "SchemeType")
          \/ OutOfVocabulary(line.gargs, "mode", "TendermintMode"))
    => outcome \notin {"returned", "error_returned"}

\* anoma_cli returned a command although --mode was given a value outside
\* its vocabulary: the Global arguments were never parsed.
C10_Witness ==
    /\ entry = "anoma" /\ pc = "done" /\ outcome = "returned"
    /\ OutOfVocabulary(line.gargs, "mode", "TendermintMode")
    /\ result.cmd.tag = "Some"
    /\ Calls("global_parse") = 0

\* Wherever the argument is parsed, a value outside the vocabulary ends the
\* invocation without a command value: --vote and --scheme in every
\* dispatcher, --mode in the dispatchers that parse the Global arguments.
OutOfVocabularyFailsWhereParsed ==
    (pc = "done"
       /\ \/ OutOfVocabulary(line.largs, "vote", "ProposalVote")
          \/ OutOfVocabulary(line.largs, "scheme", "SchemeType")
          \/ (entry # "anoma"
                /\ OutOfVocabulary(line.gargs, "mode", "TendermintMode")))
    => /\ outcome \in {"help_exit", "usage_error", "parse_error"}
       /\ result = NoResult
       /\ exit_code # -1
       /\ Calls("cmd_parse") > 0 => outcome = "parse_error"

\* vote-proposal with a vote outside the vocabulary, matched and then
\* terminated in the command's parse.
VoteOutOfVocabularyFailed ==
    /\ pc = "done" /\ outcome = "parse_error"
    /\ LastToken = cmds_TxVoteProposal_CMD
    /\ OutOfVocabulary(line.largs, "vote", "ProposalVote")
    /\ Calls("cmd_parse") = 1

\* The Global arguments have been parsed.
GlobalParsed == global_args \notin {UnitArgs, FailedArgs}

\* The base directory that the precedence flag > environment > static
\* default designates for the invocation.
BaseDirByPrecedence ==
    IF BASE_DIR.name \in DOMAIN line.gargs THEN line.gargs[BASE_DIR.name]
    ELSE IF "ANOMA_BASE_DIR" \in DOMAIN env THEN env["ANOMA_BASE_DIR"]
    ELSE DEFAULT_BASE_DIR

\* C11: the base directory in the parsed Global arguments equals the
\* --base-dir value whenever the flag is supplied, whatever the environment
\* holds, else the value of ANOMA_BASE_DIR when that is set, else the static
\* default base directory.
C11_BaseDirPrecedence ==
    GlobalParsed =>
        global_args[<<"", "base_dir">>] = Typed("PathBuf", BaseDirByPrecedence)

\* The Global arguments were parsed with --base-dir absent and
\* ANOMA_BASE_DIR set to bytes that are not valid Unicode: the static
\* default was taken, not the variable's value.
C11_Witness ==
    /\ GlobalParsed
    /\ BASE_DIR.name \notin DOMAIN line.gargs
    /\ "ANOMA_BASE_DIR" \in DOMAIN env
    /\ env["ANOMA_BASE_DIR"] = NotUnicodeBytes
    /\ global_args[<<"", "base_dir">>] = Typed("PathBuf", DEFAULT_BASE_DIR)

\* The precedence flag > environment > static default holds of every
\* invocation but those that leave --base-dir out and hold bytes that are
\* not valid Unicode in ANOMA_BASE_DIR.
BaseDirPrecedenceOfUnicodeValues ==
    (/\ GlobalParsed
     /\ \/ BASE_DIR.name \in DOMAIN line.gargs
        \/ env_var(env, "ANOMA_BASE_DIR") # NotUnicode) =>
        global_args[<<"", "base_dir">>] = Typed("PathBuf", BaseDirByPrecedence)

\* The flag's value was taken with ANOMA_BASE_DIR set to another text.
BaseDirFlagOverEnvironment ==
    /\ GlobalParsed
    /\ BASE_DIR.name \in DOMAIN line.gargs
    /\ "ANOMA_BASE_DIR" \in DOMAIN env
    /\ global_args[<<"", "base_dir">>] = Typed("PathBuf", line.gargs[BASE_DIR.name])
    /\ line.gargs[BASE_DIR.name] # env["ANOMA_BASE_DIR"]

\* The wasm directory of the parsed Global arguments is the --wasm-dir value
\* when the flag is supplied and absent otherwise, whatever ANOMA_WASM_DIR
\* holds: Global::parse reads the flag alone.
WasmDirOfGlobalIsTheFlag ==
    GlobalParsed =>
        global_args[<<"", "wasm_dir">>] =
            IF WASM_DIR.name \in DOMAIN line.gargs
            THEN SomeVal(Typed("PathBuf", line.gargs[WASM_DIR.name]))
            ELSE NoneVal

\* The Global arguments were parsed with --wasm-dir absent and
\* ANOMA_WASM_DIR set: they hold no wasm directory.
WasmDirAbsentWithVariableSet ==
    /\ GlobalParsed
    /\ WASM_DIR.name \notin DOMAIN line.gargs
    /\ "ANOMA_WASM_DIR" \in DOMAIN env
    /\ global_args[<<"", "wasm_dir">>] = NoneVal

\* The last n variants of the parsed command, innermost last.
InnerVariants(n) ==
    IF Len(cmd.variants) >= n
    THEN SubSeq(cmd.variants, Len(cmd.variants) - n + 1, Len(cmd.variants))
    ELSE <<>>

\* The command line selects `ledger`, and what follows that token.
LedgerSelected == \E i \in DOMAIN line.path : line.path[i] = cmds_Ledger_CMD
AfterLedger ==
    LET i == CHOOSE j \in DOMAIN line.path : line.path[j] = cmds_Ledger_CMD
    IN SubSeq(line.path, i + 1, Len(line.path))

\* C13: once the `ledger` token was selected, Ledger's parse never yields
\* None: with no sub-token it yields the default Ledger::Run, with `run` it
\* yields Run and with `reset` it yields Reset, so the default never
\* overrides an explicitly selected child.
C13_LedgerDefaultsToRun ==
    (LedgerSelected /\ Calls("cmd_parse") > 0) =>
        /\ cmd.tag = "Some"
        /\ AfterLedger \in {<<>>, <<cmds_LedgerRun_CMD>>} =>
               InnerVariants(2) = <<"Ledger::Run", "cmds::LedgerRun">>
        /\ AfterLedger = <<cmds_LedgerReset_CMD>> =>
               InnerVariants(2) = <<"Ledger::Reset", "cmds::LedgerReset">>
        /\ AfterLedger \in {<<>>, <<cmds_LedgerRun_CMD>>, <<cmds_LedgerReset_CMD>>}
        /\ pc = "done" => outcome \in {"returned", "error_returned"}

\* `ledger` with no sub-token was dispatched and Ledger::Run returned.
C13_Witness ==
    /\ pc = "done" /\ outcome = "returned"
    /\ LastToken = cmds_Ledger_CMD
    /\ result.cmd.tag = "Some"
    /\ InnerVariants(2) = <<"Ledger::Run", "cmds::LedgerRun">>

\* The token of each command, by the name of its constructor.
CommandToken(ctor) ==
    CASE ctor = "cmds::KeyGen" -> cmds_KeyGen_CMD
      [] ctor = "cmds::KeyFind" -> cmds_KeyFind_CMD
      [] ctor = "cmds::KeyList" -> cmds_KeyList_CMD
      [] ctor = "cmds::Export" -> cmds_Export_CMD
      [] ctor = "cmds::AddressGen" -> cmds_AddressGen_CMD
      [] ctor = "cmds::AddressOrAliasFind" -> cmds_AddressOrAliasFind_CMD
      [] ctor = "cmds::AddressList" -> cmds_AddressList_CMD
      [] ctor = "cmds::AddressAdd" -> cmds_AddressAdd_CMD
      [] ctor = "cmds::LedgerRun" -> cmds_LedgerRun_CMD
      [] ctor = "cmds::LedgerReset" -> cmds_LedgerReset_CMD
      [] ctor = "cmds::ConfigGen" -> cmds_ConfigGen_CMD
      [] ctor = "cmds::QueryResult" -> cmds_QueryResult_CMD
      [] ctor = "cmds::QueryProposal" -> cmds_QueryProposal_CMD
      [] ctor = "cmds::QueryProposalResult" -> cmds_QueryProposalResult_CMD
      [] ctor = "cmds::QueryProtocolParameters" -> cmds_QueryProtocolParameters_CMD
      [] ctor = "cmds::TxCustom" -> cmds_TxCustom_CMD
      [] ctor = "cmds::TxTransfer" -> cmds_TxTransfer_CMD
      [] ctor = "cmds::TxUpdateVp" -> cmds_TxUpdateVp_CMD
      [] ctor = "cmds::TxInitAccount" -> cmds_TxInitAccount_CMD
      [] ctor = "cmds::TxInitValidator" -> cmds_TxInitValidator_CMD
      [] ctor = "cmds::Bond" -> cmds_Bond_CMD
      [] ctor = "cmds::Unbond" -> cmds_Unbond_CMD
      [] ctor = "cmds::Withdraw" -> cmds_Withdraw_CMD
      [] ctor = "cmds::QueryEpoch" -> cmds_QueryEpoch_CMD
      [] ctor = "cmds::QueryBlock" -> cmds_QueryBlock_CMD
      [] ctor = "cmds::QueryBalance" -> cmds_QueryBalance_CMD
      [] ctor = "cmds::QueryBonds" -> cmds_QueryBonds_CMD
      [] ctor = "cmds::QueryVotingPower" -> cmds_QueryVotingPower_CMD
      [] ctor = "cmds::QueryCommissionRate" -> cmds_QueryCommissionRate_CMD
      [] ctor = "cmds::QuerySlashes" -> cmds_QuerySlashes_CMD
      [] ctor = "cmds::QueryRawBytes" -> cmds_QueryRawBytes_CMD
      [] ctor = "cmds::TxInitProposal" -> cmds_TxInitProposal_CMD
      [] ctor = "cmds::TxVoteProposal" -> cmds_TxVoteProposal_CMD
      [] ctor = "cmds::JoinNetwork" -> cmds_JoinNetwork_CMD
      [] ctor = "cmds::FetchWasms" -> cmds_FetchWasms_CMD
      [] ctor = "cmds::InitNetwork" -> cmds_InitNetwork_CMD
      [] ctor = "cmds::InitGenesisValidator" -> cmds_InitGenesisValidator_CMD
      [] OTHER -> None

\* The key of the argument that each field of a parsed structure is read
\* from.
FieldKey(field) ==
    CASE field = "account_key" -> "account-key"
      [] field = "addr" -> "address"
      [] field = "address" -> "address"
      [] field = "alias" -> "alias"
      [] field = "allow_duplicate_ip" -> "allow-duplicate-ip"
      [] field = "amount" -> "amount"
      [] field = "archive_dir" -> "archive-dir"
      [] field = "base_dir" -> "base-dir"
      [] field = "broadcast_only" -> "broadcast-only"
      [] field = "chain_id" -> "chain-id"
      [] field = "chain_id_prefix" -> "chain-prefix"
      [] field = "code_path" -> "code-path"
      [] field = "commission_rate" -> "commission-rate"
      [] field = "consensus_key" -> "consensus-key"
      [] field = "consensus_timeout_commit" -> "consensus-timeout-commit"
      [] field = "data_path" -> "data-path"
      [] field = "decrypt" -> "decrypt"
      [] field = "dont_archive" -> "dont-archive"
      [] field = "dont_prefetch_wasm" -> "dont-prefetch-wasm"
      [] field = "dry_run" -> "dry-run"
      [] field = "epoch" -> "epoch"
      [] field = "fee_amount" -> "fee-amount"
      [] field = "fee_token" -> "fee-token"
      [] field = "force" -> "force"
      [] field = "gas_limit" -> "gas-limit"
      [] field = "genesis_path" -> "genesis-path"
      [] field = "genesis_validator" -> "genesis-validator"
      [] field = "initialized_account_alias" -> "alias"
      [] field = "key_scheme" -> "scheme"
      [] field = "ledger_address" -> "ledger-address"
      [] field = "localhost" -> "localhost"
      [] field = "max_commission_rate_change" -> "max-commission-rate-change"
      [] field = "mode" -> "mode"
      [] field = "net_address" -> "net-address"
      [] field = "offline" -> "offline"
      [] field = "owner" -> "owner"
      [] field = "pre_genesis_path" -> "pre-genesis-path"
      [] field = "proposal_data" -> "data-path"
      [] field = "proposal_folder" -> "data-path"
      [] field = "proposal_id" -> "proposal-id"
      [] field = "protocol_key" -> "protocol-key"
      [] field = "public_key" -> "public-key"
      [] field = "scheme" -> "scheme"
      [] field = "signer" -> "signer"
      [] field = "signing_key" -> "signing-key"
      [] field = "source" -> "source"
      [] field = "storage_key" -> "storage-key"
      [] field = "sub_prefix" -> "sub-prefix"
      [] field = "target" -> "target"
      [] field = "token" -> "token"
      [] field = "tx_hash" -> "tx-hash"
      [] field = "unsafe_dont_encrypt" -> "unsafe-dont-encrypt"
      [] field = "unsafe_show_secret" -> "unsafe-show-secret"
      [] field = "validator" -> "validator"
      [] field = "validator_vp_code_path" -> "validator-code-path"
      [] field = "value" -> "value"
      [] field = "vote" -> "vote"
      [] field = "vp_code_path" -> "code-path"
      [] field = "wasm_checksums_path" -> "wasm-checksums-path"
      [] field = "wasm_dir" -> "wasm-dir"
      [] OTHER -> None

\* The token of the composite command that a variant wraps, None for a
\* variant that wraps a leaf command or adds no token.
VariantToken(v) ==
    CASE v = "Anoma::Node" -> NODE_CMD
      [] v = "Anoma::Client" -> CLIENT_CMD
      [] v = "Anoma::Wallet" -> WALLET_CMD
      [] v \in {"Anoma::Ledger", "AnomaNode::Ledger"} -> cmds_Ledger_CMD
      [] v = "AnomaNode::Config" -> cmds_Config_CMD
      [] v = "AnomaWallet::Key" -> cmds_WalletKey_CMD
      [] v = "AnomaWallet::Address" -> cmds_WalletAddress_CMD
      [] v = "AnomaClient::WithoutContext" -> cmds_Utils_CMD
      [] OTHER -> None

\* The token path that a chain of variants stands for.
RECURSIVE PathOf(_)
PathOf(vs) ==
    IF vs = <<>> THEN <<>>
    ELSE LET t == IF Len(vs) = 1 THEN CommandToken(vs[1]) ELSE VariantToken(vs[1])
         IN (IF t = None THEN <<>> ELSE <<t>>) \o PathOf(Tail(vs))

\* The command line selects a leaf of the dispatcher's tree.
IsLeafPath ==
    /\ Len(line.path) > 0
    /\ line.path \notin InvalidPaths
    /\ ~\E p \in DOMAIN InputTable[entry] :
          Len(p) > Len(line.path) /\ SubSeq(p, 1, Len(line.path)) = line.path

\* Every text given to the selected command converts to its argument's type.
WellFormedArgs ==
    \A k \in DOMAIN line.largs :
        /\ <<"l", k>> \in DOMAIN Selected.desc
        /\ FromStr(Selected.desc[<<"l", k>>].ty, line.largs[k]) # Failed

\* The text a parsed value was converted from.
RawOf(v) == v[Len(v)]

\* The field holds what the descriptor d of its key designates for the
\* command line: the text given for the key, the presence of the flag, or
\* nothing or the default when the key is not given.
FieldFromKey(v, d) ==
    IF d.card = "flag" THEN v = BoolVal(d.name \in DOMAIN line.largs)
    ELSE IF d.name \in DOMAIN line.largs THEN RawOf(v) = line.largs[d.name]
    ELSE IF d.card = "opt" THEN v = NoneVal
    ELSE d.card \in {"default", "default_ctx"} /\ RawOf(v) = d.dflt

\* C14: dispatching on the token path of a leaf command with valid
\* arguments yields the variant chain of exactly that path, and each field
\* of the payload equals the value parsed from the argument of the
\* corresponding key; no field is filled from another argument's key.
C14_PayloadFromOwnKeys ==
    (IsLeafPath /\ Calls("cmd_parse") > 0 /\ WellFormedArgs) =>
        /\ cmd.tag = "Some"
        /\ PathOf(cmd.variants) = line.path
        /\ \A f \in DOMAIN cmd.args :
              /\ <<"l", FieldKey(f[2])>> \in DOMAIN Selected.desc
              /\ FieldKey(f[2]) \in Selected.declared
              /\ FieldFromKey(cmd.args[f], Selected.desc[<<"l", FieldKey(f[2])>>])

\* A transfer was dispatched and its payload holds the texts given for
\* --source, --target, --token and --amount.
C14_Witness ==
    /\ pc = "done" /\ outcome = "returned"
    /\ IsLeafPath /\ LastToken = cmds_TxTransfer_CMD
    /\ \A f \in {"source", "target", "token", "amount"} :
          /\ <<"", f>> \in DOMAIN result.cmd.args
          /\ RawOf(result.cmd.args[<<"", f>>]) = line.largs[f]
    /\ Cardinality({line.largs[f] : f \in {"source", "target", "token", "amount"}}) = 4

\* The tokens of the commands that the combined executable has both at its
\* root and under `client` or `node`, and the parent of the nested position.
InlinedTokens ==
    {cmds_Ledger_CMD, cmds_TxCustom_CMD, cmds_TxTransfer_CMD,
     cmds_TxUpdateVp_CMD, cmds_TxInitProposal_CMD, cmds_TxVoteProposal_CMD}
NestedParent(token) == IF token = cmds_Ledger_CMD THEN NODE_CMD ELSE CLIENT_CMD

\* The command line selects such a command, at the root or nested.
SelectsInlined ==
    /\ entry = "anoma" /\ Len(line.path) > 0
    /\ \/ line.path[1] \in InlinedTokens
       \/ /\ Len(line.path) > 1
          /\ line.path[2] \in InlinedTokens
          /\ line.path[1] = NestedParent(line.path[2])

\* The same command line with the command in its other position.
OtherPosition ==
    IF line.path[1] \in InlinedTokens
    THEN [line EXCEPT !.path = <<NestedParent(line.path[1])>> \o @]
    ELSE [line EXCEPT !.path = Tail(@)]

\* The inner command value of a parse result: the command (for `ledger`,
\* the Ledger value) without the variants of its position.
InnerCommand(c, path) ==
    LET n == IF c.tag # "Some" THEN 0
             ELSE IF cmds_Ledger_CMD \in {path[i] : i \in DOMAIN path} THEN 2
             ELSE 1
    IN [tag |-> c.tag,
        variants |-> SubSeq(c.variants, Len(c.variants) - n + 1, Len(c.variants)),
        args |-> c.args]

\* C15: a command that the combined executable has both at its root and
\* under `client` or `node` declares the same arguments in both positions,
\* the matcher accepts the same command lines, and for the same arguments
\* Anoma::parse yields the same inner command value, the results differing
\* only in the wrapping variants.
C15_SameCommandInBothPositions ==
    SelectsInlined =>
        /\ NodeAt(anoma_app, line.path)
             = NodeAt(anoma_app, OtherPosition.path)
        /\ get_matches(anoma_app, line) = get_matches(anoma_app, OtherPosition)
        /\ Calls("cmd_parse") > 0 =>
             /\ InnerCommand(cmd, line.path)
                  = InnerCommand(cmds_Anoma_parse(Matches(OtherPosition, env, 0)),
                                 OtherPosition.path)
             /\ cmd.tag = "Some" =>
                  cmd.variants
                    # cmds_Anoma_parse(Matches(OtherPosition, env, 0)).variants

\* `anoma transfer` was dispatched with its four required arguments, and
\* `anoma client transfer` with the same arguments parses to the same
\* cmds::TxTransfer.
C15_Witness ==
    /\ entry = "anoma" /\ pc = "done" /\ outcome = "returned"
    /\ line.path = <<cmds_TxTransfer_CMD>>
    /\ {"source", "target", "token", "amount"} \subseteq DOMAIN line.largs
    /\ cmds_Anoma_parse(Matches(OtherPosition, env, 0)).tag = "Some"
    /\ InnerCommand(cmds_Anoma_parse(Matches(OtherPosition, env, 0)),
                    OtherPosition.path) = InnerCommand(result.cmd, line.path)

\* The token under which the combined executable nests the commands of a
\* single-purpose executable, and the variant it wraps them in.
EntryToken(e) ==
    CASE e = "anoma-node" -> NODE_CMD
      [] e = "anoma-client" -> CLIENT_CMD
      [] OTHER -> WALLET_CMD
EntryVariant(e) ==
    CASE e = "anoma-node" -> "Anoma::Node"
      [] e = "anoma-client" -> "Anoma::Client"
      [] OTHER -> "Anoma::Wallet"

\* The command line of a single-purpose executable, given to the combined
\* executable under the executable's token.
InCombined == [line EXCEPT !.path = <<EntryToken(entry)>> \o @]

\* C16: every command selectable in the node-only, client-only or
\* wallet-only executable by a token path p is selectable in the combined
\* executable by `node` p, `client` p or `wallet` p, and parses there to the
\* same command value wrapped in Anoma::Node, Anoma::Client or
\* Anoma::Wallet.
C16_SingleExecutablesNestInCombined ==
    (entry # "anoma" /\ Len(line.path) > 0) =>
        /\ get_matches(anoma_app, InCombined) = get_matches(AppOf(entry), line)
        /\ Calls("cmd_parse") > 0 =>
             cmds_Anoma_parse(Matches(InCombined, env, 0))
               = map(cmd, EntryVariant(entry))

\* `address add` was dispatched by the wallet executable, and `wallet
\* address add` parses in the combined executable to the same command in
\* Anoma::Wallet.
C16_Witness ==
    /\ entry = "anoma-wallet" /\ pc = "done" /\ outcome = "returned"
    /\ line.path = <<cmds_WalletAddress_CMD, cmds_AddressAdd_CMD>>
    /\ get_matches(anoma_app, InCombined) = "ok"
    /\ cmds_Anoma_parse(Matches(InCombined, env, 0)).variants
         = <<"Anoma::Wallet">> \o result.cmd.variants
    /\ cmds_Anoma_parse(Matches(InCombined, env, 0)).args = result.cmd.args

\* The tokens of the children of a node, in the order they were added.
SiblingTokens(app) == [i \in 1..Len(app.subcommands) |-> app.subcommands[i].name]

\* No two children of any node of the tree share a token.
RECURSIVE NoDuplicateSiblings(_)
NoDuplicateSiblings(app) ==
    /\ \A i, j \in 1..Len(app.subcommands) :
          SiblingTokens(app)[i] = SiblingTokens(app)[j] => i = j
    /\ \A i \in 1..Len(app.subcommands) : NoDuplicateSiblings(app.subcommands[i])

\* C17: in the command tree that a dispatcher builds and matches, no two
\* sibling nodes under the same parent share a command token (the tree, a
\* single App value, has exactly one root).
C17_NoDuplicateSiblingTokens ==
    Calls("get_matches") > 0 => NoDuplicateSiblings(AppOf(entry))

\* anoma_client_cli matched a tree whose root has every client command
\* twice: the children added by anoma_client_app and the same children
\* added again by AnomaClient::add_sub.
C17_Witness ==
    /\ entry = "anoma-client" /\ Calls("get_matches") > 0
    /\ Len(AppOf(entry).subcommands) = 2 * Len(anoma_client_app.subcommands)
    /\ \A i \in 1..Len(anoma_client_app.subcommands) :
          SiblingTokens(AppOf(entry))[i + Len(anoma_client_app.subcommands)]
            = SiblingTokens(AppOf(entry))[i]
    /\ \A e \in Entries \ {"anoma-client"} : NoDuplicateSiblings(AppOf(e))

\* The chain of alternatives that the composite command reached at depth
\* lvl of the command line evaluates: the root command of the executable at
\* depth 0, below it the composite that the token at that depth selects
\* (none for a leaf).
ChainAt(lvl) ==
    LET m == Matches(line, env, lvl) IN
    IF lvl = 0
    THEN CASE entry = "anoma" -> cmds_Anoma_attempts(m)
           [] entry = "anoma-node" -> cmds_AnomaNode_attempts(m)
           [] entry = "anoma-client" -> cmds_AnomaClient_attempts(m)
           [] OTHER -> cmds_AnomaWallet_attempts(m)
    ELSE CASE line.path[lvl] = NODE_CMD -> cmds_AnomaNode_attempts(m)
           [] line.path[lvl] = CLIENT_CMD -> cmds_AnomaClient_attempts(m)
           [] line.path[lvl] = WALLET_CMD -> cmds_AnomaWallet_attempts(m)
           [] line.path[lvl] = cmds_WalletKey_CMD -> cmds_WalletKey_attempts(m)
           [] line.path[lvl] = cmds_WalletAddress_CMD -> cmds_WalletAddress_attempts(m)
           [] line.path[lvl] = cmds_Ledger_CMD -> cmds_Ledger_attempts(m)
           [] line.path[lvl] = cmds_Utils_CMD -> cmds_Utils_attempts(m)
           [] line.path[lvl] = cmds_Config_CMD ->
                <<map(cmds_ConfigGen_parse(m), "Config::Gen")>>
           [] OTHER -> <<>>

\* The chain at depth lvl is Ledger's, whose last alternative is the
\* default and not the parse attempt of a sibling.
IsLedgerChain(lvl) == lvl > 0 /\ line.path[lvl] = cmds_Ledger_CMD

\* The parse attempts of the siblings in a chain: all of it but, in Ledger's,
\* the default.
SiblingAttempts(chain, lvl) ==
    IF IsLedgerChain(lvl) THEN SubSeq(chain, 1, Len(chain) - 1) ELSE chain

\* At most one of the attempts yields a command.
AtMostOneValue(attempts) ==
    Cardinality({i \in DOMAIN attempts : attempts[i].tag = "Some"}) <= 1

\* The attempts with the i-th evaluated first.  The result of a permuted
\* chain is that of the chain with some alternative moved first.
MoveFirst(attempts, i) ==
    <<attempts[i]>> \o SubSeq(attempts, 1, i - 1)
                    \o SubSeq(attempts, i + 1, Len(attempts))

\* C18 (as stated): for any matched input and any composite node, at most
\* one sibling's parse attempt yields a value, and evaluating the chain of
\* alternatives in any permutation returns the same command.
C18_Original ==
    Calls("cmd_parse") > 0 =>
        \A lvl \in 0..Len(line.path) :
            LET chain == ChainAt(lvl)
                chosen == or(chain)
            IN /\ AtMostOneValue(SiblingAttempts(chain, lvl))
               /\ \A i \in DOMAIN chain : or(MoveFirst(chain, i)) = chosen

\* C18 (amended): for any matched input and any composite node, at most one
\* sibling's parse attempt yields a value, and evaluating the siblings'
\* attempts in any permutation returns the same command, provided that
\* Ledger's default alternative, which yields a value on every input, stays
\* last in its chain.
C18_SiblingOrderIrrelevant ==
    Calls("cmd_parse") > 0 =>
        \A lvl \in 0..Len(line.path) :
            LET chain == ChainAt(lvl)
                chosen == or(chain)
                siblings == SiblingAttempts(chain, lvl)
                last == SubSeq(chain, Len(siblings) + 1, Len(chain))
            IN /\ AtMostOneValue(siblings)
               /\ \A i \in DOMAIN siblings :
                     or(MoveFirst(siblings, i) \o last) = chosen
               /\ lvl = 0 => chosen = cmd

\* `ledger reset` was dispatched to Ledger::Reset; with the default
\* alternative evaluated first the chain would have returned Ledger::Run.
C18_Witness ==
    /\ pc = "done" /\ outcome = "returned"
    /\ Len(line.path) > 1 /\ LastToken = cmds_LedgerReset_CMD
    /\ IsLedgerChain(Len(line.path) - 1)
    /\ InnerVariants(2) = <<"Ledger::Reset", "cmds::LedgerReset">>
    /\ or(MoveFirst(ChainAt(Len(line.path) - 1), 3)).variants
         = <<"Ledger::Run", "cmds::LedgerRun">>
    /\ AtMostOneValue(SiblingAttempts(ChainAt(Len(line.path) - 1),
                                      Len(line.path) - 1))

\* The selected command declares the argument with the context-derived
\* default.
DeclaresFeeToken ==
    /\ line.path \in DOMAIN InputTable[entry]
    /\ FEE_TOKEN.name \in Selected.declared
    /\ Selected.desc[<<"l", FEE_TOKEN.name>>].card = "default_ctx"

C20_ContextFailureIsReturned ==
    (entry = "anoma-client" /\ IsWithContext(cmd) /\ context.tag = "Err") =>
        /\ pc = "done" /\ outcome = "error_returned"
        /\ result.kind = "Err"
        /\ result.context = context
        /\ result.cmd = CmdNone
        /\ ~help_printed /\ Calls("print_help") = 0
        /\ exit_code = -1
        /\ Calls("context_new") = 1

\* Context::new failed for a bond in the client dispatcher and its error
\* was returned.
C20_Witness ==
    /\ entry = "anoma-client" /\ pc = "done"
    /\ IsWithContext(cmd) /\ LastToken = cmds_Bond_CMD
    /\ context.tag = "Err"
    /\ outcome = "error_returned"
    /\ result.context = context

\* No two descriptors added to the command share a key.
DistinctKeys(app) ==
    \A i, j \in 1..Len(app.args) : app.args[i].name = app.args[j].name => i = j

\* The same for the command and every command below it.
RECURSIVE DistinctKeysBelow(_)
DistinctKeysBelow(app) ==
    /\ DistinctKeys(app)
    /\ \A i \in 1..Len(app.subcommands) : DistinctKeysBelow(app.subcommands[i])

\* C21: within the argument set of any single command (its own descriptors
\* plus the shared Tx or Query descriptors it includes), every argument key
\* is declared at most once, in every command of the tree that a dispatcher
\* matches and in the command that is registered nowhere.
C21_KeysDeclaredOnce ==
    Calls("get_matches") > 0 =>
        /\ DistinctKeysBelow(AppOf(entry))
        /\ DistinctKeys(cmds_QueryCommissionRate_def)
        /\ Len(line.path) > 0 =>
             Cardinality(Selected.declared)
               = Len(NodeAt(AppOf(entry), line.path).args)

\* init-validator was matched: its definition adds the ten Tx descriptors
\* and nine of its own, nineteen keys in all.
C21_Witness ==
    /\ Calls("get_matches") > 0
    /\ LastToken = cmds_TxInitValidator_CMD
    /\ Len(cmds_TxInitValidator_def.args) = 19
    /\ Cardinality(Selected.declared) = 19
    /\ Len(args_Tx_def(App_new("")).args) = 10

\* The top-level token that selects each variant of cmds::Anoma.
AnomaVariantToken(v) ==
    CASE v = "Anoma::Node" -> "node"
      [] v = "Anoma::Client" -> "client"
      [] v = "Anoma::Wallet" -> "wallet"
      [] v = "Anoma::Ledger" -> "ledger"
      [] v = "Anoma::TxCustom" -> "tx"
      [] v = "Anoma::TxTransfer" -> "transfer"
      [] v = "Anoma::TxUpdateVp" -> "update"
      [] v = "Anoma::TxInitProposal" -> "init-proposal"
      [] v = "Anoma::TxVoteProposal" -> "vote-proposal"
      [] OTHER -> None

\* C22: whenever anoma_cli returns a pair (command, raw token), the raw
\* token is the top-level token that selected the returned variant: the
\* first token of the command line, and the token of the variant (Node with
\* "node", Client with "client", ..., TxVoteProposal with "vote-proposal").
C22_RawTokenSelectsVariant ==
    (entry = "anoma" /\ pc = "done" /\ outcome = "returned") =>
        /\ result.cmd.tag = "Some"
        /\ result.raw_sub_cmd # None
        /\ result.raw_sub_cmd = line.path[1]
        /\ result.raw_sub_cmd = AnomaVariantToken(Head(result.cmd.variants))

\* anoma_cli returned `client transfer` as Anoma::Client with the raw token
\* "client".
C22_Witness ==
    /\ entry = "anoma" /\ pc = "done" /\ outcome = "returned"
    /\ line.path = <<CLIENT_CMD, cmds_TxTransfer_CMD>>
    /\ result.raw_sub_cmd = "client"
    /\ Head(result.cmd.variants) = "Anoma::Client"

\* The command line selects `address find` of the wallet.
SelectsAddressFind ==
    /\ Len(line.path) > 1
    /\ line.path \in DOMAIN InputTable[entry]
    /\ LastToken = cmds_AddressOrAliasFind_CMD
    /\ line.path[Len(line.path) - 1] = cmds_WalletAddress_CMD

\* The keys of the `find_flags` group that the command line supplies.
FindFlagsSupplied == {ALIAS_OPT.name, RAW_ADDRESS_OPT.name} \cap DOMAIN line.largs

\* Exactly one of alias and address is set in the parsed structure.
ExactlyOneOfAliasAndAddress(a) ==
    /\ {<<"", "alias">>, <<"", "address">>} \subseteq DOMAIN a
    /\ (a[<<"", "alias">>] = NoneVal) # (a[<<"", "address">>] = NoneVal)

\* C23: `wallet address find` is accepted only when exactly one of --alias
\* and --address is supplied: supplying neither and supplying both are each
\* rejected before the command's parse runs, so every parsed
\* AddressOrAliasFind has exactly one of alias and address set.
C23_AddressFindNeedsExactlyOne ==
    SelectsAddressFind =>
        /\ (pc # "start" /\ Cardinality(FindFlagsSupplied) # 1) =>
              /\ outcome = "usage_error"
              /\ trace = <<"get_matches">>
              /\ cmd = CmdNone
        /\ (pc # "start" /\ Cardinality(FindFlagsSupplied) = 1
              /\ DOMAIN line.largs \subseteq Selected.declared
              /\ DOMAIN line.gargs = {}) =>
              outcome # "usage_error"
        /\ cmd.tag = "Some" =>
              /\ InnerVariants(1) = <<"cmds::AddressOrAliasFind">>
              /\ ExactlyOneOfAliasAndAddress(cmd.args)
        /\ result.cmd.tag = "Some" => ExactlyOneOfAliasAndAddress(result.cmd.args)

\* `address find` given both --alias and --address was rejected by the
\* matcher.
C23_Witness ==
    /\ SelectsAddressFind
    /\ pc = "done" /\ outcome = "usage_error"
    /\ DOMAIN line.largs = {ALIAS_OPT.name, RAW_ADDRESS_OPT.name}
    /\ DOMAIN line.gargs = {}
    /\ trace = <<"get_matches">>

\* A variant of cmds::AnomaClientWithContext and the command it wraps.
WithContextVariantOf(variant, ctor) == [variant |-> variant, ctor |-> ctor]

\* The variants of cmds::AnomaClientWithContext, each wrapping the command of
\* the same name.
AnomaClientWithContextVariants ==
    {WithContextVariantOf("AnomaClientWithContext::TxCustom", "cmds::TxCustom"),
     WithContextVariantOf("AnomaClientWithContext::TxTransfer", "cmds::TxTransfer"),
     WithContextVariantOf("AnomaClientWithContext::QueryResult", "cmds::QueryResult"),
     WithContextVariantOf("AnomaClientWithContext::TxUpdateVp", "cmds::TxUpdateVp"),
     WithContextVariantOf("AnomaClientWithContext::TxInitAccount", "cmds::TxInitAccount"),
     WithContextVariantOf("AnomaClientWithContext::TxInitValidator", "cmds::TxInitValidator"),
     WithContextVariantOf("AnomaClientWithContext::TxInitProposal", "cmds::TxInitProposal"),
     WithContextVariantOf("AnomaClientWithContext::TxVoteProposal", "cmds::TxVoteProposal"),
     WithContextVariantOf("AnomaClientWithContext::Bond", "cmds::Bond"),
     WithContextVariantOf("AnomaClientWithContext::Unbond", "cmds::Unbond"),
     WithContextVariantOf("AnomaClientWithContext::Withdraw", "cmds::Withdraw"),
     WithContextVariantOf("AnomaClientWithContext::QueryEpoch", "cmds::QueryEpoch"),
     WithContextVariantOf("AnomaClientWithContext::QueryBlock", "cmds::QueryBlock"),
     WithContextVariantOf("AnomaClientWithContext::QueryBalance", "cmds::QueryBalance"),
     WithContextVariantOf("AnomaClientWithContext::QueryBonds", "cmds::QueryBonds"),
     WithContextVariantOf("AnomaClientWithContext::QueryVotingPower", "cmds::QueryVotingPower"),
     WithContextVariantOf("AnomaClientWithContext::QueryCommissionRate", "cmds::QueryCommissionRate"),
     WithContextVariantOf("AnomaClientWithContext::QuerySlashes", "cmds::QuerySlashes"),
     WithContextVariantOf("AnomaClientWithContext::QueryRawBytes", "cmds::QueryRawBytes"),
     WithContextVariantOf("AnomaClientWithContext::QueryProposal", "cmds::QueryProposal"),
     WithContextVariantOf("AnomaClientWithContext::QueryProposalResult", "cmds::QueryProposalResult"),
     WithContextVariantOf("AnomaClientWithContext::QueryProtocolParameters", "cmds::QueryProtocolParameters")}

\* The plain invocation of a command of the client by its token: the token
\* and the command's required arguments, each with a well-formed text.
PlainClientLine(token) ==
    LET node == NodeAt(anoma_client_cli_app, <<token>>)
    IN [path |-> <<token>>, gargs |-> NoArgs,
        largs |-> [k \in RequiredNames(node) |->
                      RawText(DescriptorOf(node, k), FALSE, 1)]]

\* The variant can be produced by the client dispatcher: its command's token
\* is registered by AnomaClient::add_sub, the matcher accepts the plain
\* invocation of the token and AnomaClient::parse yields the variant for it.
Producible(v) ==
    LET token == CommandToken(v.ctor) IN
    /\ FindSubcommand(anoma_client_cli_app, token) # 0
    /\ get_matches(anoma_client_cli_app, PlainClientLine(token)) = "ok"
    /\ cmds_AnomaClient_parse(Matches(PlainClientLine(token), {}, 0)).variants
         = <<"AnomaClient::WithContext", v.variant, v.ctor>>

ProducibleVariants == {v \in AnomaClientWithContextVariants : Producible(v)}

\* C24: every variant of the client's context-dependent command type
\* (AnomaClientWithContext) can be produced by the client dispatcher: for
\* each variant there is a token registered in AnomaClient's definition and
\* a parse attempt in AnomaClient::parse that yields it.
C24_EveryWithContextVariantProducible ==
    (entry = "anoma-client" /\ Calls("get_matches") > 0) =>
        ProducibleVariants = AnomaClientWithContextVariants

\* The client dispatcher was given `commission-rate`, the token of the
\* command that AnomaClientWithContext::QueryCommissionRate wraps, and the
\* matcher rejected it as an unknown sub-command; every other variant can be
\* produced.
C24_Witness ==
    /\ entry = "anoma-client" /\ pc = "done"
    /\ line.path = <<cmds_QueryCommissionRate_CMD>>
    /\ outcome = "usage_error"
    /\ cmd = CmdNone
    /\ AnomaClientWithContextVariants \ ProducibleVariants
         = {WithContextVariantOf("AnomaClientWithContext::QueryCommissionRate",
                                 "cmds::QueryCommissionRate")}
    /\ Cardinality(AnomaClientWithContextVariants) = 22

\* The composite commands.
Composites ==
    {"Anoma", "AnomaNode", "AnomaClient", "AnomaWallet", "WalletKey",
     "WalletAddress", "Ledger", "Config", "Utils"}

\* The node that the definition of a composite command builds.
CompositeApp(c) ==
    CASE c = "Anoma" -> anoma_app
      [] c = "AnomaNode" -> cmds_AnomaNode_def
      [] c = "AnomaClient" -> cmds_AnomaClient_def
      [] c = "AnomaWallet" -> cmds_AnomaWallet_def
      [] c = "WalletKey" -> cmds_WalletKey_def
      [] c = "WalletAddress" -> cmds_WalletAddress_def
      [] c = "Ledger" -> cmds_Ledger_def
      [] c = "Config" -> cmds_Config_def
      [] c = "Utils" -> cmds_Utils_def

\* The matches of a command line without arguments.
PathMatches(path, lvl) ==
    Matches([path |-> path, gargs |-> NoArgs, largs |-> NoArgs], {}, lvl)

\* The parse attempts that a composite command makes for its children when
\* the tokens of path follow its own token: the alternatives of its parse
\* (for Ledger without the default, which is no attempt of a child).
ChildAttempts(c, path) ==
    CASE c = "Anoma" -> cmds_Anoma_attempts(PathMatches(path, 0))
      [] c = "AnomaNode" -> cmds_AnomaNode_attempts(PathMatches(path, 0))
      [] c = "AnomaClient" -> cmds_AnomaClient_attempts(PathMatches(path, 0))
      [] c = "AnomaWallet" -> cmds_AnomaWallet_attempts(PathMatches(path, 0))
      [] c = "WalletKey" ->
           cmds_WalletKey_attempts(PathMatches(<<cmds_WalletKey_CMD>> \o path, 1))
      [] c = "WalletAddress" ->
           cmds_WalletAddress_attempts(
               PathMatches(<<cmds_WalletAddress_CMD>> \o path, 1))
      [] c = "Ledger" ->
           SubSeq(cmds_Ledger_attempts(PathMatches(<<cmds_Ledger_CMD>> \o path, 1)),
                  1, 2)
      [] c = "Config" ->
           <<cmds_Config_parse(PathMatches(<<cmds_Config_CMD>> \o path, 0))>>
      [] c = "Utils" ->
           cmds_Utils_attempts(PathMatches(<<cmds_Utils_CMD>> \o path, 1))

\* The token of every command that is no composite, registered or not.
LeafTokens ==
    {cmds_KeyGen_CMD, cmds_KeyFind_CMD, cmds_KeyList_CMD, cmds_Export_CMD,
     cmds_AddressGen_CMD, cmds_AddressOrAliasFind_CMD, cmds_AddressList_CMD,
     cmds_AddressAdd_CMD, cmds_LedgerRun_CMD, cmds_LedgerReset_CMD,
     cmds_ConfigGen_CMD, cmds_QueryResult_CMD, cmds_QueryProposal_CMD,
     cmds_QueryProposalResult_CMD, cmds_QueryProtocolParameters_CMD,
     cmds_TxCustom_CMD, cmds_TxTransfer_CMD, cmds_TxUpdateVp_CMD,
     cmds_TxInitAccount_CMD, cmds_TxInitValidator_CMD, cmds_Bond_CMD,
     cmds_Unbond_CMD, cmds_Withdraw_CMD, cmds_QueryEpoch_CMD,
     cmds_QueryBlock_CMD, cmds_QueryBalance_CMD, cmds_QueryBonds_CMD,
     cmds_QueryVotingPower_CMD, cmds_QueryCommissionRate_CMD,
     cmds_QuerySlashes_CMD, cmds_QueryRawBytes_CMD, cmds_TxInitProposal_CMD,
     cmds_TxVoteProposal_CMD, cmds_JoinNetwork_CMD, cmds_FetchWasms_CMD,
     cmds_InitNetwork_CMD, cmds_InitGenesisValidator_CMD}

\* The token sequences tried below a composite command: every sequence that
\* ends a token path of some executable, the token of every command, and an
\* unknown token.
TrialPaths ==
    LET paths == UNION {AllPaths(AppOf(e)) : e \in Entries} \cup InvalidPaths
    IN UNION {{SubSeq(p, i, Len(p)) : i \in 1..Len(p)} : p \in paths}
         \cup {<<t>> : t \in LeafTokens}

\* The tokens of the children that the definition of the composite attaches.
SelectableTokens(c) ==
    {CompositeApp(c).subcommands[i].name : i \in 1..Len(CompositeApp(c).subcommands)}

\* The tokens of the children that the parse of the composite attempts: those
\* for which some attempt reads the matches of the token.
ParsedTokens(c) ==
    {p[1] : p \in {q \in TrialPaths :
                     \E i \in DOMAIN ChildAttempts(c, q) :
                         ChildAttempts(c, q)[i] # CmdNone}}

\* The composites whose definition and parse disagree on the children.
MismatchedComposites ==
    {c \in Composites : SelectableTokens(c) # ParsedTokens(c)}

\* C25: for every composite command node (Anoma, AnomaNode, AnomaClient,
\* AnomaWallet, WalletKey, WalletAddress, Ledger, Config, Utils), the set of
\* child commands attached by its definition equals the set of child
\* commands its parse attempts; so a command line that the matcher accepts
\* is never left unparsed.
C25_AttachedChildrenAreParsed ==
    Calls("get_matches") > 0 =>
        /\ MismatchedComposites = {}
        /\ Calls("cmd_parse") > 0 => cmd.tag # "None"

\* `utils fetch-wasms` was selected in the client and parsed by Utils, whose
\* definition attaches the four commands that its parse attempts.
C25_Witness ==
    /\ entry = "anoma-client" /\ pc = "done" /\ outcome = "returned"
    /\ line.path = <<cmds_Utils_CMD, cmds_FetchWasms_CMD>>
    /\ InnerVariants(2) = <<"Utils::FetchWasms", "cmds::FetchWasms">>
    /\ "Utils" \notin MismatchedComposites

\* The argument keys that the fields of a parsed structure were read from.
KeysRead(a) == {FieldKey(f[2]) : f \in DOMAIN a}

\* C26: for every argument structure, the set of argument keys declared by
\* its def equals the set of keys read by its parse: every key read was
\* declared and every declared key is read into the parsed value.
C26_DeclaredKeysAreRead ==
    /\ (IsLeafPath /\ cmd.tag = "Some") => KeysRead(cmd.args) = Selected.declared
    /\ GlobalParsed => KeysRead(global_args) = ArgNames(GlobalApp)

\* `query-proposal --dry-run` was accepted and returned: --dry-run is
\* declared by QueryProposal::def, through the Tx arguments, and read into no
\* field of the parsed command.
C26_Witness ==
    /\ pc = "done" /\ outcome = "returned"
    /\ LastToken = cmds_QueryProposal_CMD
    /\ DRY_RUN_TX.name \in DOMAIN line.largs
    /\ DRY_RUN_TX.name \in Selected.declared
    /\ DRY_RUN_TX.name \notin KeysRead(result.cmd.args)
    /\ KeysRead(result.cmd.args) = {LEDGER_ADDRESS.name, PROPOSAL_ID.name}

\* The tokens of the children of the composite reached at depth lvl of the
\* command line, in the order of its parse attempts.
ChainTokens(lvl) ==
    SiblingTokens(NodeAt(AppOf(entry), SubSeq(line.path, 1, lvl)))

\* The attempts of the chain at depth lvl that ran a command's parse: those
\* that did not stop at the token.
AttemptsRun(lvl) ==
    LET siblings == SiblingAttempts(ChainAt(lvl), lvl)
    IN {i \in DOMAIN siblings : siblings[i] # CmdNone}

\* C27: although a composite node evaluates the parse attempt of every
\* sibling before combining them, argument parsing runs only for the command
\* on the selected token path: the attempt of every sibling whose token was
\* not selected stops at the token, so the parse fails only on a text given
\* to the selected command.
C27_OnlySelectedCommandParsesArguments ==
    Calls("cmd_parse") > 0 =>
        /\ \A lvl \in 0..Len(line.path) :
              LET run == AttemptsRun(lvl)
                  tokens == ChainTokens(lvl)
              IN /\ Cardinality(run) <= 1
                 /\ \A i \in run :
                       /\ lvl < Len(line.path)
                       /\ tokens[i] = line.path[lvl + 1]
        /\ cmd.tag = "Exit" => ~WellFormedArgs
        /\ (IsLeafPath /\ WellFormedArgs) => cmd.tag = "Some"

\* The client returned `epoch`, which takes no required argument, although
\* the command line holds none of the required arguments of the siblings
\* whose attempts were evaluated with it (--code-path of `tx`, --source of
\* `transfer`): only the attempt of `epoch` ran.
C27_Witness ==
    /\ entry = "anoma-client" /\ pc = "done" /\ outcome = "returned"
    /\ line.path = <<cmds_QueryEpoch_CMD>>
    /\ {CODE_PATH.name, SOURCE.name} \cap DOMAIN line.largs = {}
    /\ Cardinality(AttemptsRun(0)) = 1
    /\ Len(ChainAt(0)) = 22
    /\ \A i \in AttemptsRun(0) : ChainTokens(0)[i] = cmds_QueryEpoch_CMD

\* The command line selects `key find` of the wallet.
SelectsKeyFind ==
    /\ Len(line.path) > 1
    /\ line.path \in DOMAIN InputTable[entry]
    /\ LastToken = cmds_KeyFind_CMD
    /\ line.path[Len(line.path) - 1] = cmds_WalletKey_CMD

\* The look-up keys of `key find` that the command line supplies.
KeyFindSupplied ==
    {RAW_PUBLIC_KEY_OPT.name, ALIAS_OPT.name, VALUE.name} \cap DOMAIN line.largs

\* The look-up fields of a parsed KeyFind that are set.
KeyFindSet(a) ==
    {f \in {<<"", "public_key">>, <<"", "alias">>, <<"", "value">>} : IsSet(a, f)}

\* C28: `wallet key find` accepts at most one of --public-key, --alias and
\* --value: any invocation supplying two or more of them is rejected before
\* the command's parse runs, while supplying none of them is accepted and
\* yields a KeyFind with all three unset.
C28_KeyFindTakesAtMostOne ==
    SelectsKeyFind =>
        /\ (pc # "start" /\ Cardinality(KeyFindSupplied) >= 2) =>
              /\ outcome = "usage_error"
              /\ trace = <<"get_matches">>
              /\ cmd = CmdNone
        /\ (pc # "start" /\ Cardinality(KeyFindSupplied) <= 1
              /\ DOMAIN line.largs \subseteq Selected.declared
              /\ DOMAIN line.gargs = {}) =>
              outcome # "usage_error"
        /\ cmd.tag = "Some" =>
              /\ InnerVariants(1) = <<"cmds::KeyFind">>
              /\ Cardinality(KeyFindSet(cmd.args)) <= 1
              /\ Cardinality(KeyFindSet(cmd.args)) = Cardinality(KeyFindSupplied)
        /\ (pc = "done" /\ line.largs = NoArgs /\ line.gargs = NoArgs) =>
              /\ outcome \in {"returned", "error_returned"}
              /\ KeyFindSet(cmd.args) = {}
              /\ {<<"", "public_key">>, <<"", "alias">>, <<"", "value">>}
                    \subseteq DOMAIN cmd.args

\* `key find` given both --alias and --value was rejected by the matcher.
C28_Witness ==
    /\ SelectsKeyFind
    /\ pc = "done" /\ outcome = "usage_error"
    /\ DOMAIN line.largs = {ALIAS_OPT.name, VALUE.name}
    /\ DOMAIN line.gargs = {}
    /\ trace = <<"get_matches">>

\* The command that the executable's root parse yields for the command line
\* of this run when the environment holds the variables of `other`.
CmdUnder(other) ==
    LET m == Matches(line, other, 0) IN
    IF entry = "anoma" THEN cmds_Anoma_parse(m)
    ELSE IF entry = "anoma-client" THEN cmds_AnomaClient_parse(m)
    ELSE RootParse(entry, m)

\* The Global arguments parsed from the command line of this run when the
\* environment holds the variables of `other`.
GlobalUnder(other) == args_Global_parse(Matches(line, other, 0))

\* C29: the environment influences the parse result only through the base
\* directory: for two runs with identical command-line input and different
\* environment variables, the selected command variant and every command
\* payload field are identical, and the Global arguments differ at most in
\* base_dir, and only when --base-dir was not supplied.
C29_EnvironmentOnlyThroughBaseDir ==
    \A other \in Environments :
        /\ Calls("cmd_parse") > 0 => CmdUnder(other) = cmd
        /\ Calls("global_parse") > 0 =>
              /\ DOMAIN GlobalUnder(other) = DOMAIN global_args
              /\ \A f \in DOMAIN global_args \ {<<"", "base_dir">>} :
                     GlobalUnder(other)[f] = global_args[f]
              /\ BASE_DIR.name \in DOMAIN line.gargs =>
                     GlobalUnder(other) = global_args

\* A client command returned with ANOMA_BASE_DIR set and --base-dir absent:
\* the same command line under the empty environment yields the same
\* command and Global arguments that differ in base_dir alone.
C29_Witness ==
    /\ entry = "anoma-client" /\ pc = "done" /\ outcome = "returned"
    /\ cmd.tag = "Some"
    /\ DOMAIN env = EnvVars
    /\ env["ANOMA_BASE_DIR"] = EnvValue("ANOMA_BASE_DIR")
    /\ BASE_DIR.name \notin DOMAIN line.gargs
    /\ CmdUnder(NoEnv) = cmd
    /\ global_args[<<"", "base_dir">>] = Typed("PathBuf", EnvValue("ANOMA_BASE_DIR"))
    /\ GlobalUnder(NoEnv)[<<"", "base_dir">>] = Typed("PathBuf", DEFAULT_BASE_DIR)
    /\ \A f \in DOMAIN global_args \ {<<"", "base_dir">>} :
           GlobalUnder(NoEnv)[f] = global_args[f]

(***************************************************************************)
(* Type invariant.                                                         *)
(***************************************************************************)
TypeOK ==
    /\ entry \in Entries
    /\ pc \in {"start", "matched", "parsed", "global", "done"}
    /\ outcome \in {"running", "returned", "error_returned", "help_exit",
                    "usage_error", "parse_error"}
    /\ cmd.tag \in {"None", "Some", "Exit"}
    /\ context.tag \in {"None", "Ok", "Err"}
    /\ exit_code \in {-1, 2} \cup ParserExitCodes
    /\ (pc = "done") = (outcome # "running")

=============================================================================
